---- MODULE Spec2Model ----
(***************************************************************************)
(* Arbitrage detection core of polymaster (arbi/): the marginal polytope   *)
(* (buildConstraints, checkFeasibility, solveLP) and the Frank-Wolfe       *)
(* I-projection (FrankWolfe::optimize).                                    *)
(*                                                                         *)
(* Arithmetic.  The program computes in IEEE doubles; the model computes   *)
(* in fixed point.  A probability x is the integer x * ONE, rounded down   *)
(* after every multiplication, as a double is rounded after every          *)
(* operation.  One unit of the grid plays the part of the rounding error   *)
(* of a double, so the order of magnitudes of the program is kept:         *)
(*     rounding unit <= EPS < FEAS_TOL << distance between two prices.     *)
(* Gradients are counted in 1/GS, step sizes in 1/GAM, logarithms and      *)
(* the profit in 1/LNS.  Every product stays below 2^31.                   *)
(*                                                                         *)
(* Indices.  Markets, rows and columns are numbered from 0 as in the       *)
(* source; a vector v of the source is the sequence with v[i] at i + 1.    *)
(***************************************************************************)
EXTENDS Integers, Sequences, FiniteSets, TLC

\* ------------------------------------------------------------------ scales
ONE == 2^10
HALF == ONE \div 2
GS == 2^8
GAM == 2^16
LNS == 2^16

\* ------------------------------------------------------- program constants
EPS == 1
FEAS_TOL == 16
ROW_EQ_TOL == 16
LS_STEPS == 30
NO_LOWER == -(2^30)
FINITE_ABOVE == -(2^29)

\* ------------------------------------------------------------------ bounds
MaxDeps == 2
MaxIters == 3

Relations == {"IMPLIES", "MUTEX", "EXACTLY_ONE", "INDEPENDENT"}
NumMarkets == {0, 2, 3}

Max(a, b) == IF a >= b THEN a ELSE b
Min(a, b) == IF a <= b THEN a ELSE b
Abs(a) == IF a >= 0 THEN a ELSE -a

RECURSIVE SumTo(_, _)
\* sum of f[1] .. f[n]
SumTo(f, n) == IF n = 0 THEN 0 ELSE f[n] + SumTo(f, n - 1)

RECURSIVE DotTo(_, _, _)
DotTo(a, b, n) == IF n = 0 THEN 0 ELSE a[n] * b[n] + DotTo(a, b, n - 1)

Dot(a, b) == DotTo(a, b, Len(a))

VARIABLES
  num_vars, num_constraints, A_triplets, b_upper, b_lower, var_lb, var_ub,
  num_markets, \* the arguments of the last buildConstraints call
  deps,
  op,          \* the last operation called on the polytope / optimizer
  feas,        \* checkFeasibility: its argument and its result
  lp,          \* solveLP: the objective of the last call and what it returned
  pc,          \* optimize: position ("idle", "loop", "exit")
  prices, max_iters, tolerance,   \* optimize: the arguments
  p, q, k,     \* optimize: clamped prices, iterate, loop counter
  result,      \* optimize: FrankWolfe::Result
  hist,        \* optimize: what the loop did (LP calls, line-search steps, last gap)
  glp_fails,   \* GLPK: whether glp_simplex may end without an optimal basis
  book,        \* ExecutionEngine: the order book the calls are made on
  calls,       \* ExecutionEngine: computeVWAP / estimateSlippage calls and results
  verdict,     \* ExecutionEngine: the last isProfitableAfterCosts call
  scan,        \* main: the scan tick (steps 3 to 7)
  thr,         \* threads calling into one shared polytope
  trade,       \* ExecutionEngine::execute: the call under way and its TradeResult
  breg,        \* BregmanProjection::project: its locals and its result
  dg           \* DependencyGraph: cache, is_discovering_, mutex and the task

polyVars == <<num_vars, num_constraints, A_triplets, b_upper, b_lower, var_lb, var_ub>>
fwVars == <<pc, prices, max_iters, tolerance, p, q, k, result, hist>>
extVars == <<trade, breg, dg>>
auxVars == <<glp_fails, book, calls, verdict, scan, thr, extVars>>
vars == <<polyVars, num_markets, deps, op, feas, lp, fwVars, auxVars>>

\* ------------------------------------------------- MarginalPolytope: build
Triplet(row, col, val) == [row |-> row, col |-> col, val |-> val]

\* mutant of NewRow: the two columns are exchanged
NewRowSwapped(acc, dep, cj, bu, bl) ==
  [row |-> acc.row + 1,
   trip |-> acc.trip \o <<Triplet(acc.row, dep.market_j, 1),
                          Triplet(acc.row, dep.market_i, cj)>>,
   bu |-> Append(acc.bu, bu),
   bl |-> Append(acc.bl, bl)]

\* the statements shared by the three cases that add a row: two triplets in
\* row acc.row, +1 at market_i and cj at market_j, and the two row bounds
NewRow(acc, dep, cj, bu, bl) ==
  [row |-> acc.row + 1,
   trip |-> acc.trip \o <<Triplet(acc.row, dep.market_i, 1),
                          Triplet(acc.row, dep.market_j, cj)>>,
   bu |-> Append(acc.bu, bu),
   bl |-> Append(acc.bl, bl)]

\* mutant of AddRow: an INDEPENDENT dependency is given a row as well
AddRowNoSkip(acc, dep) ==
  CASE dep.relation = "IMPLIES" -> NewRow(acc, dep, -1, 0, NO_LOWER)
    [] dep.relation = "MUTEX" -> NewRow(acc, dep, 1, ONE, NO_LOWER)
    [] dep.relation = "EXACTLY_ONE" -> NewRow(acc, dep, 1, ONE, ONE)
    [] dep.relation = "INDEPENDENT" -> NewRow(acc, dep, 1, 2 * ONE, NO_LOWER)

\* mutant of AddRow: MUTEX is encoded as x_i + x_j <= 0
AddRowMutexZero(acc, dep) ==
  CASE dep.relation = "IMPLIES" -> NewRow(acc, dep, -1, 0, NO_LOWER)
    [] dep.relation = "MUTEX" -> NewRow(acc, dep, 1, 0, NO_LOWER)
    [] dep.relation = "EXACTLY_ONE" -> NewRow(acc, dep, 1, ONE, ONE)
    [] dep.relation = "INDEPENDENT" -> acc

\* the switch in buildConstraints: the rows so far, plus the row of dep
AddRow(acc, dep) ==
  CASE dep.relation = "IMPLIES" -> NewRow(acc, dep, -1, 0, NO_LOWER)
    [] dep.relation = "MUTEX" -> NewRow(acc, dep, 1, ONE, NO_LOWER)
    [] dep.relation = "EXACTLY_ONE" -> NewRow(acc, dep, 1, ONE, ONE)
    [] dep.relation = "INDEPENDENT" -> acc

RECURSIVE BuildRows(_, _, _)
\* the loop over deps, from its i-th element on
BuildRows(ds, i, acc) ==
  IF i > Len(ds) THEN acc ELSE BuildRows(ds, i + 1, AddRow(acc, ds[i]))

EmptyRows == [row |-> 0, trip |-> <<>>, bu |-> <<>>, bl |-> <<>>]

\* ------------------------------------------- MarginalPolytope: feasibility
RECURSIVE RowValues(_, _, _, _)
\* row_values after the triplets from the i-th on are added to rv
RowValues(trips, pr, i, rv) ==
  IF i > Len(trips) THEN rv
  ELSE LET t == trips[i]
       IN  RowValues(trips, pr, i + 1,
             IF t.col < Len(pr)
               THEN [rv EXCEPT ![t.row + 1] = @ + t.val * pr[t.col + 1]]
               ELSE rv)

UpperBreached(v, bu) == v > bu + FEAS_TOL

\* mutant of LowerBreached: the lower bound is tested without the tolerance
LowerBreachedExact(v, bl) == bl > FINITE_ABOVE /\ v < bl

LowerBreached(v, bl) == bl > FINITE_ABOVE /\ v < bl - FEAS_TOL

\* mutant of CheckRow: violation is overwritten by the breach of the row
\* instead of taking the maximum
CheckRowLast(res, r, v, bu, bl) ==
  LET up == IF UpperBreached(v, bu)
              THEN [feasible |-> FALSE,
                    violation |-> v - bu,
                    dual |-> [res.dual EXCEPT ![r + 1] = v - bu]]
              ELSE res
  IN  IF LowerBreached(v, bl)
        THEN [feasible |-> FALSE,
              violation |-> bl - v,
              dual |-> [up.dual EXCEPT ![r + 1] = -(bl - v)]]
        ELSE up

\* the body of the loop over rows, for row r (0-based) with row value v
CheckRow(res, r, v, bu, bl) ==
  LET up == IF UpperBreached(v, bu)
              THEN [feasible |-> FALSE,
                    violation |-> Max(res.violation, v - bu),
                    dual |-> [res.dual EXCEPT ![r + 1] = v - bu]]
              ELSE res
  IN  IF LowerBreached(v, bl)
        THEN [feasible |-> FALSE,
              violation |-> Max(up.violation, bl - v),
              dual |-> [up.dual EXCEPT ![r + 1] = -(bl - v)]]
        ELSE up

RECURSIVE CheckRows(_, _, _, _, _, _)
CheckRows(res, r, nc, rv, bu, bl) ==
  IF r >= nc THEN res
  ELSE CheckRows(CheckRow(res, r, rv[r + 1], bu[r + 1], bl[r + 1]),
                 r + 1, nc, rv, bu, bl)

\* checkFeasibility(pr) on a polytope of nc rows
CheckFeasibilityOf(pr, nc, trips, bu, bl) ==
  LET res0 == [feasible |-> TRUE, violation |-> 0, dual |-> [r \in 1..nc |-> 0]]
  IN  IF nc = 0 THEN res0
      ELSE CheckRows(res0, 0, nc, RowValues(trips, pr, 1, [r \in 1..nc |-> 0]),
                     bu, bl)

\* ------------------------------------------------ MarginalPolytope: solveLP
\* the row sense solveLP gives GLPK for row r (1-based here)
RowSense(bl, bu) ==
  IF bl > FINITE_ABOVE /\ Abs(bl - bu) < ROW_EQ_TOL THEN "GLP_FX"
  ELSE IF bl > FINITE_ABOVE THEN "GLP_DB"
  ELSE "GLP_UP"

\* mutant of GlpRowOK: every row is given to GLPK as upper-bounded only
GlpRowUpperOnly(a, bl, bu) == a <= bu

\* what GLPK requires of the row activity a under the bounds set for the row
GlpRowOK(a, bl, bu) ==
  CASE RowSense(bl, bu) = "GLP_FX" -> a = bl
    [] RowSense(bl, bu) = "GLP_DB" -> bl <= a /\ a <= bu
    [] RowSense(bl, bu) = "GLP_UP" -> a <= bu

RECURSIVE ActivityTo(_, _, _, _)
ActivityTo(trips, r, x, i) ==
  IF i = 0 THEN 0
  ELSE (IF trips[i].row = r THEN trips[i].val * x[trips[i].col + 1] ELSE 0)
         + ActivityTo(trips, r, x, i - 1)

\* the activity of row r (0-based) at the point x: the matrix as loaded
RowActivity(trips, r, x) == ActivityTo(trips, r, x, Len(trips))

\* mutant of GlpFeasible: the rows hold strictly below their upper bounds
GlpFeasibleInterior(x) ==
  /\ \A j \in 1..num_vars : var_lb[j] <= x[j] /\ x[j] <= var_ub[j]
  /\ \A r \in 1..num_constraints :
        RowActivity(A_triplets, r - 1, x) < b_upper[r]

\* x is a feasible point of the LP that solveLP hands to GLPK
GlpFeasible(x) ==
  /\ \A j \in 1..num_vars : var_lb[j] <= x[j] /\ x[j] <= var_ub[j]
  /\ \A r \in 1..num_constraints :
        GlpRowOK(RowActivity(A_triplets, r - 1, x), b_lower[r], b_upper[r])

\* x is a basic solution: no direction d leaves every active bound active.
\* The rows have entries +1/-1 in two columns, so directions in {-1,0,1}^n
\* decide it.
GlpBasic(x) ==
  ~ \E d \in [1..num_vars -> {-1, 0, 1}] :
      /\ \E j \in 1..num_vars : d[j] # 0
      /\ \A j \in 1..num_vars : (x[j] = var_lb[j] \/ x[j] = var_ub[j]) => d[j] = 0
      /\ \A r \in 1..num_constraints :
           LET a == RowActivity(A_triplets, r - 1, x)
           IN  (a = b_upper[r] \/ a = b_lower[r])
                 => RowActivity(A_triplets, r - 1, d) = 0

\* the basic feasible solutions: they lie on the half-integral grid
GlpVertices ==
  {x \in [1..num_vars -> {0, HALF, ONE}] : GlpFeasible(x) /\ GlpBasic(x)}

NoSolution == [ok |-> FALSE, x |-> <<>>]

\* the values solveLP(c) can return: nullopt, or an optimal basic solution
\* (GLPK is deterministic, which of several optimal vertices it returns is
\* not fixed by its interface)
SolveLP(c) ==
  IF num_vars = 0 THEN {NoSolution}
  ELSE LET V == GlpVertices
           best == {x \in V : \A y \in V : Dot(c, x) <= Dot(c, y)}
       IN  IF best = {} THEN {NoSolution}
           ELSE {[ok |-> TRUE, x |-> x] : x \in best}

\* solveLP with the failures of the library: nullopt also when glp_simplex
\* returns non-zero or the status is not GLP_OPT
SolveLPOrFail(c) == SolveLP(c) \cup (IF glp_fails THEN {NoSolution} ELSE {})

\* ------------------------------------------------------------- std::log
RECURSIVE Log2Floor(_)
\* the integer part of log2(x), x >= 1
Log2Floor(x) == IF x < 2 THEN 0 ELSE 1 + Log2Floor(x \div 2)

RECURSIVE Log2Frac(_, _, _)
\* b more binary digits of log2(y / 2^14), 2^14 <= y < 2^15, after acc
Log2Frac(y, b, acc) ==
  IF b = 0 THEN acc
  ELSE LET y2 == (y * y) \div (2^14)
       IN  IF y2 >= 2^15 THEN Log2Frac(y2 \div 2, b - 1, 2 * acc + 1)
                         ELSE Log2Frac(y2, b - 1, 2 * acc)

\* log(x / ONE) in units of 1/LNS, for 1 <= x < 2^15
LogOf(x) ==
  LET e == Log2Floor(x)
      l2 == e * 2^12 + Log2Frac(x * 2^(14 - e), 12, 0)   \* log2(x) * 2^12
  IN  ((l2 - 10 * 2^12) * 11357) \div 2^10               \* * ln(2) * LNS / 2^12

\* the table of std::log on the arguments the optimizer can pass
Log == [x \in 1..(ONE - 1) |-> LogOf(x)]

\* ------------------------------------------------- FrankWolfe::optimize
Clamp(x) == Max(EPS, Min(ONE - EPS, x))

\* p: the prices clamped to [EPS, 1 - EPS]
ClampPrices(pr) == [i \in 1..Len(pr) |-> Clamp(pr[i])]

\* mutant of InitialIterate: q starts at the origin
InitialIterateZero(n) == [i \in 1..n |-> 0]

\* q starts at the centre, Constant(n, 0.5)
InitialIterate(n) == [i \in 1..n |-> HALF]

\* mutant of LoopCond: one pass too many
LoopCondInclusive(kk, mi) == kk <= mi

\* the loop condition k < max_iters
LoopCond(kk, mi) == kk < mi

\* mutant of GapBelow: the comparison is turned round
GapAbove(gap, tol) == gap > tol

\* the test gap < tolerance that ends the loop with converged = true
GapBelow(gap, tol) == gap < tol

\* grad[i] = -p[i]/qi + (1-p[i])/(1-qi), qi the clamped q[i]; in units of 1/GS
Gradient(pp, qq) ==
  [i \in 1..Len(pp) |->
     LET qi == Clamp(qq[i])
     IN  -((pp[i] * GS) \div qi) + (((ONE - pp[i]) * GS) \div (ONE - qi))]

\* gap = grad . (q - v)
DualityGap(grad, qq, v) == Dot(grad, [i \in 1..Len(qq) |-> qq[i] - v[i]])

\* (1-g) * a + g * b for a step g in units of 1/GAM
Mix(g, a, b) == ((GAM - g) * a + g * b) \div GAM

\* one term of the KL sum: pi*log(pi/qi) + (1-pi)*log((1-pi)/(1-qi)), 1/LNS
KLTerm(pi, qi) ==
  (pi * (Log[pi] - Log[qi])) \div ONE
    + ((ONE - pi) * (Log[ONE - pi] - Log[ONE - qi])) \div ONE

RECURSIVE KLSum(_, _, _, _, _)
\* the first i terms of the sum in klAtGamma(g)
KLSum(pp, qq, v, g, i) ==
  IF i = 0 THEN 0
  ELSE KLTerm(pp[i], Clamp(Mix(g, qq[i], v[i]))) + KLSum(pp, qq, v, g, i - 1)

\* klAtGamma(g): D_KL(p || (1-g) q + g v), the mixture clamped
KLAtGamma(pp, qq, v, g) == KLSum(pp, qq, v, g, Len(pp))

RECURSIVE LineSearch(_, _, _, _, _, _)
\* the ternary search from its ls-th step on; [lo, hi, the steps done]
LineSearch(pp, qq, v, lo, hi, ls) ==
  IF ls >= LS_STEPS THEN [lo |-> lo, hi |-> hi, steps |-> ls]
  ELSE LET g1 == lo + (hi - lo) \div 3
           g2 == lo + (2 * (hi - lo)) \div 3
       IN  IF KLAtGamma(pp, qq, v, g1) < KLAtGamma(pp, qq, v, g2)
             THEN LineSearch(pp, qq, v, lo, g2, ls + 1)
             ELSE LineSearch(pp, qq, v, g1, hi, ls + 1)

\* gamma = (gamma_lo + gamma_hi) / 2
StepSize(search) == (search.lo + search.hi) \div 2

\* mutant of Update: the step is added to q without scaling q by 1-gamma
UpdateOvershoot(qq, v, gamma) ==
  [i \in 1..Len(qq) |-> Clamp(qq[i] + (gamma * v[i]) \div GAM)]

\* q = (1-gamma) q + gamma v, then the clamp of every component
Update(qq, v, gamma) == [i \in 1..Len(qq) |-> Clamp(Mix(gamma, qq[i], v[i]))]

\* mutant of TradeVector: the clamped prices p are subtracted
TradeVectorClamped(qq, pr) == [i \in 1..Len(qq) |-> qq[i] - Clamp(pr[i])]

\* result.trade_vector = q - prices
TradeVector(qq, pr) == [i \in 1..Len(qq) |-> qq[i] - pr[i]]

\* D_KL(p || q) after the loop, q clamped; in units of 1/LNS
KLDivergence(pp, qq) ==
  SumTo([i \in 1..Len(pp) |-> KLTerm(pp[i], Clamp(qq[i]))], Len(pp))

\* trade_vector.lpNorm<1>() * 0.5, in units of 1/LNS
HalfL1(tv) ==
  (SumTo([i \in 1..Len(tv) |-> Abs(tv[i])], Len(tv)) * (LNS \div ONE)) \div 2

\* mutant of Profit: the KL term alone
ProfitKLOnly(pp, qq, tv) == KLDivergence(pp, qq)

\* result.profit = max(kl, l1)
Profit(pp, qq, tv) == Max(KLDivergence(pp, qq), HalfL1(tv))

\* ------------------------------------------------------------------ inputs
\* the dependencies a caller passes for n markets, between neighbouring
\* markets: market_i # market_j as the dependency graph emits them, a symmetric
\* relation listed once per pair, and for three markets the implications of
\* the chain 2 => 1 => 0
DepPool(n) ==
  {d \in [market_i : 0..(n - 1), market_j : 0..(n - 1), relation : Relations] :
     /\ Abs(d.market_i - d.market_j) = 1
     /\ d.relation \in {"MUTEX", "EXACTLY_ONE"} => d.market_i < d.market_j
     /\ d.relation = "INDEPENDENT" => d.market_i = 0
     /\ (d.relation = "IMPLIES" /\ n > 2) => d.market_i > d.market_j}

DepLists(n) == UNION {[1..l -> DepPool(n)] : l \in 0..MaxDeps}

\* price vectors for checkFeasibility: sums and differences on both sides of
\* and at the tolerance (284 + 724 = ONE - FEAS_TOL, 300 + 740 = ONE + FEAS_TOL,
\* 740 - 724 = FEAS_TOL)
FeasPrices(n) == [1..n -> {284, 300, 724, 740}]

\* price vectors for optimize, inside and on the border of [0,1]
OptPrices(n) ==
  {pr \in [1..n -> {0, 307, 410, HALF, 614, 717, ONE}] :
     \/ \A i \in 1..n : pr[i] = HALF
     \/ \A i \in 1..n : pr[i] = (IF i % 2 = 1 THEN 717 ELSE 614)
     \/ \A i \in 1..n : pr[i] = (IF i % 2 = 1 THEN 307 ELSE 410)
     \/ \A i \in 1..n : pr[i] = (IF i % 2 = 1 THEN ONE ELSE 0)}

\* objectives for a direct solveLP call, in units of 1/GS
Objectives(n) == [1..n -> {-GS, GS}] \cup {[i \in 1..n |-> 0]}

\* tolerances, in the unit of the gap (1/(GS*ONE)): the smallest positive
\* one stands for the default 1e-8
Tolerances == {1, 2^14}

\* ------------------------------------------------------------------- state
NoFeas == [prices |-> <<>>, feasible |-> TRUE, violation |-> 0, dual |-> <<>>]
NoLP == [c |-> <<>>, ret |-> NoSolution]
NoResult == [optimal |-> <<>>, trade_vector |-> <<>>, profit |-> 0,
             iterations |-> 0, converged |-> FALSE]
NoHist == [lp_calls |-> 0, ls_steps |-> 0, ls_total |-> 0, updates |-> 0,
           gap |-> 0, exit |-> "none"]

NoBook == [bids |-> <<>>, asks |-> <<>>]
NoVerdict == [called |-> FALSE]
NoScan == [stage |-> "none"]
NoThreads == <<>>
NoTrade == [stage |-> "none"]
NoBregman == [pc |-> "none"]
NoGraph == [stage |-> "none"]

FwIdle ==
  /\ pc' = "idle" /\ prices' = <<>> /\ max_iters' = 0 /\ tolerance' = 0
  /\ p' = <<>> /\ q' = <<>> /\ k' = 0 /\ result' = NoResult /\ hist' = NoHist

CoreInit ==
  /\ num_vars = 0 /\ num_constraints = 0
  /\ A_triplets = <<>> /\ b_upper = <<>> /\ b_lower = <<>>
  /\ var_lb = <<>> /\ var_ub = <<>>
  /\ num_markets = 0 /\ deps = <<>>
  /\ op = "none" /\ feas = NoFeas /\ lp = NoLP
  /\ pc = "idle" /\ prices = <<>> /\ max_iters = 0 /\ tolerance = 0
  /\ p = <<>> /\ q = <<>> /\ k = 0 /\ result = NoResult /\ hist = NoHist

\* no execution-engine call, no scan tick and no thread is under way
ExecIdle == book = NoBook /\ calls = <<>> /\ verdict = NoVerdict
ScanIdle == scan = NoScan
ThreadsIdle == thr = NoThreads
ExtIdle == trade = NoTrade /\ breg = NoBregman /\ dg = NoGraph

Init ==
  CoreInit /\ glp_fails = FALSE /\ ExecIdle /\ ScanIdle /\ ThreadsIdle /\ ExtIdle

\* ----------------------------------------------------------------- actions
\* MarginalPolytope::buildConstraints(n, ds)
BuildConstraints(n, ds) ==
  /\ pc = "idle" /\ op = "none"
  /\ LET rows == BuildRows(ds, 1, EmptyRows)
     IN  /\ num_vars' = n
         /\ A_triplets' = rows.trip
         /\ b_upper' = rows.bu
         /\ b_lower' = rows.bl
         /\ var_lb' = [j \in 1..n |-> 0]
         /\ var_ub' = [j \in 1..n |-> ONE]
         /\ num_constraints' = rows.row
  /\ num_markets' = n /\ deps' = ds
  /\ op' = "build" /\ feas' = NoFeas /\ lp' = NoLP
  /\ FwIdle
  /\ UNCHANGED auxVars

\* MarginalPolytope::checkFeasibility(pr)
CheckFeasibility(pr) ==
  /\ pc = "idle" /\ op \in {"none", "build"}
  /\ LET res == CheckFeasibilityOf(pr, num_constraints, A_triplets, b_upper, b_lower)
     IN  feas' = [prices |-> pr, feasible |-> res.feasible,
                  violation |-> res.violation, dual |-> res.dual]
  /\ op' = "check" /\ lp' = NoLP
  /\ FwIdle
  /\ UNCHANGED <<polyVars, num_markets, deps, auxVars>>

\* MarginalPolytope::solveLP(c), called directly
SolveLPCall(c) ==
  /\ pc = "idle" /\ op \in {"none", "build"}
  /\ \E ret \in SolveLPOrFail(c) : lp' = [c |-> c, ret |-> ret]
  /\ op' = "solve" /\ feas' = NoFeas
  /\ FwIdle
  /\ UNCHANGED <<polyVars, num_markets, deps, auxVars>>

\* mutant of IterationsAt: the pass under way is not counted
IterationsAtCompleted(kk) == kk

\* result.iterations as the pass with counter kk sets it on entry
IterationsAt(kk) == kk + 1

\* mutant of BreakOnFailure: the failed pass reports convergence
BreakOnFailureConverged(res, kk) ==
  [res EXCEPT !.iterations = IterationsAt(kk), !.converged = TRUE]

\* the result when solveLP returns nullopt in the pass with counter kk: the
\* loop is left by break, converged stays as it was set before the loop
BreakOnFailure(res, kk) == [res EXCEPT !.iterations = IterationsAt(kk)]

\* FrankWolfe::optimize, up to the loop
EnterOptimize(pr, mi, tol) ==
  /\ pc' = "loop"
  /\ prices' = pr /\ max_iters' = mi /\ tolerance' = tol
  /\ p' = ClampPrices(pr)
  /\ q' = InitialIterate(Len(pr))
  /\ k' = 0
  /\ result' = NoResult
  /\ hist' = NoHist
  /\ op' = "optimize" /\ lp' = NoLP

\* a call of FrankWolfe::optimize
OptimizeBegin(pr, mi, tol) ==
  /\ pc = "idle" /\ op \in {"none", "build"}
  /\ EnterOptimize(pr, mi, tol)
  /\ feas' = NoFeas
  /\ UNCHANGED <<polyVars, num_markets, deps, auxVars>>

\* one pass of the loop body
OptimizeIterate ==
  /\ pc = "loop" /\ LoopCond(k, max_iters)
  /\ LET grad == Gradient(p, q)
     IN  \E ret \in SolveLPOrFail(grad) :
           /\ lp' = [c |-> grad, ret |-> ret]
           /\ \/ /\ ~ ret.ok                                  \* break: LP failed
                 /\ result' = BreakOnFailure(result, k)
                 /\ hist' = [hist EXCEPT !.lp_calls = @ + 1, !.ls_steps = 0,
                                         !.exit = "lp_failed"]
                 /\ pc' = "exit"
                 /\ UNCHANGED <<q, k>>
              \/ /\ ret.ok
                 /\ GapBelow(DualityGap(grad, q, ret.x), tolerance)  \* break
                 /\ result' = [result EXCEPT !.iterations = IterationsAt(k),
                                             !.converged = TRUE]
                 /\ hist' = [hist EXCEPT !.lp_calls = @ + 1, !.ls_steps = 0,
                                         !.gap = DualityGap(grad, q, ret.x),
                                         !.exit = "converged"]
                 /\ pc' = "exit"
                 /\ UNCHANGED <<q, k>>
              \/ /\ ret.ok
                 /\ ~ GapBelow(DualityGap(grad, q, ret.x), tolerance)
                 /\ LET search == LineSearch(p, q, ret.x, 0, GAM, 0)
                    IN  /\ q' = Update(q, ret.x, StepSize(search))
                        /\ hist' = [hist EXCEPT !.lp_calls = @ + 1,
                                       !.ls_steps = search.steps,
                                       !.ls_total = @ + search.steps,
                                       !.updates = @ + 1,
                                       !.gap = DualityGap(grad, q, ret.x)]
                 /\ result' = [result EXCEPT !.iterations = IterationsAt(k)]
                 /\ k' = k + 1
                 /\ pc' = "loop"
  /\ UNCHANGED <<polyVars, num_markets, deps, op, feas, prices, max_iters, tolerance, p,
                 auxVars>>

\* the loop condition fails: k = max_iters
OptimizeExhaust ==
  /\ pc = "loop" /\ ~ LoopCond(k, max_iters)
  /\ pc' = "exit"
  /\ hist' = [hist EXCEPT !.exit = "max_iters"]
  /\ UNCHANGED <<polyVars, num_markets, deps, op, feas, lp, prices, max_iters, tolerance,
                 p, q, k, result, auxVars>>

\* after the loop: the result is filled in and returned
OptimizeReturn ==
  /\ pc = "exit"
  /\ pc' = "idle"
  /\ result' = [result EXCEPT !.optimal = q,
                              !.trade_vector = TradeVector(q, prices),
                              !.profit = Profit(p, q, TradeVector(q, prices))]
  /\ UNCHANGED <<polyVars, num_markets, deps, op, feas, lp, prices, max_iters, tolerance,
                 p, q, k, hist, auxVars>>

Next ==
  \/ \E n \in NumMarkets : \E ds \in DepLists(n) : BuildConstraints(n, ds)
  \/ \E pr \in FeasPrices(num_vars) : CheckFeasibility(pr)
  \/ \E c \in Objectives(num_vars) : SolveLPCall(c)
  \/ \E pr \in OptPrices(num_vars) : \E mi \in {0, MaxIters} :
       \E tol \in Tolerances : OptimizeBegin(pr, mi, tol)
  \/ OptimizeIterate
  \/ OptimizeExhaust
  \/ OptimizeReturn

Spec == Init /\ [][Next]_vars

\* the same calls where glp_simplex may end without an optimal basis, so
\* that solveLP may return nullopt in any pass of optimize
FaultInit ==
  CoreInit /\ glp_fails = TRUE /\ ExecIdle /\ ScanIdle /\ ThreadsIdle /\ ExtIdle

FaultSpec == FaultInit /\ [][Next]_vars

\* ========================================================= ExecutionEngine
\* Dollars, shares, prices and rates are counted in 1/ONE; total_cost, a sum
\* of products, in 1/(ONE * COST), so that a product is rounded to a finer
\* grid than a price, as the product of two doubles is.
COST == 2^6

\* the smallest trade-vector entry that makes a leg: the 1e-6 of the source
TV_MIN == 2

FMul(a, b) == (a * b) \div ONE

\* mutant of Levels: a buy walks the bids, a sell the asks
LevelsSwapped(bk, side) == IF side = "BUY" THEN bk.bids ELSE bk.asks

\* the side of the book a trade consumes
Levels(bk, side) == IF side = "BUY" THEN bk.asks ELSE bk.bids

BestBid(bk) == IF bk.bids = <<>> THEN 0 ELSE bk.bids[1].price

\* mutant of BestAsk: the deepest ask
BestAskDeepest(bk) == IF bk.asks = <<>> THEN ONE ELSE bk.asks[Len(bk.asks)].price

BestAsk(bk) == IF bk.asks = <<>> THEN ONE ELSE bk.asks[1].price

RECURSIVE FillLevels(_, _, _)
\* the loop over the levels, from the i-th on; st holds remaining,
\* total_cost and total_filled
FillLevels(levels, i, st) ==
  IF i > Len(levels) THEN st
  ELSE LET fill == Min(st.remaining, levels[i].size)
           nx == [remaining |-> st.remaining - fill,
                  total_cost |-> st.total_cost
                                   + (fill * levels[i].price) \div (ONE \div COST),
                  total_filled |-> st.total_filled + fill]
       IN  IF nx.remaining <= 0 THEN nx ELSE FillLevels(levels, i + 1, nx)

\* ExecutionEngine::computeVWAP
ComputeVWAP(bk, side, size) ==
  LET levels == Levels(bk, side)
  IN  IF levels = <<>> THEN 0
      ELSE LET st == FillLevels(levels, 1,
                       [remaining |-> size, total_cost |-> 0, total_filled |-> 0])
           IN  IF st.total_filled = 0 THEN 0
               ELSE (st.total_cost * ONE) \div (st.total_filled * COST)

\* ExecutionEngine::estimateSlippage
EstimateSlippage(bk, side, size) ==
  LET vwap == ComputeVWAP(bk, side, size)
      best == IF side = "BUY" THEN BestAsk(bk) ELSE BestBid(bk)
  IN  IF best = 0 THEN ONE ELSE (Abs(vwap - best) * ONE) \div best

\* the side of a leg with trade-vector entry t
LegSide(t) == IF t > 0 THEN "BUY" ELSE "SELL"

RECURSIVE SlippageLoop(_, _, _, _, _)
\* the loop over the legs from the i-th on: total_slippage
SlippageLoop(opp, books, trade_size, i, total) ==
  IF ~ (i <= Len(books) /\ i <= Len(opp.market_indices)) THEN total
  ELSE LET mkt_idx == opp.market_indices[i]
           tv == IF mkt_idx < Len(opp.trade_vector)
                   THEN Abs(opp.trade_vector[mkt_idx + 1]) ELSE 0
       IN  IF tv < TV_MIN
             THEN SlippageLoop(opp, books, trade_size, i + 1, total)
             ELSE LET slippage == EstimateSlippage(books[i],
                                    LegSide(opp.trade_vector[mkt_idx + 1]),
                                    FMul(tv, trade_size))
                  IN  SlippageLoop(opp, books, trade_size, i + 1,
                                   total + FMul(slippage, tv))

\* mutant of NetProfit: the slippage is not scaled by the notional
NetProfitRate(gross_profit, fees, total_slippage, trade_size) ==
  gross_profit - fees - total_slippage

\* net = gross_profit - fees - total_slippage * trade_size
NetProfit(gross_profit, fees, total_slippage, trade_size) ==
  gross_profit - fees - FMul(total_slippage, trade_size)

\* ExecutionEngine::isProfitableAfterCosts under the configuration cfg
IsProfitableAfterCosts(opp, books, cfg) ==
  LET trade_size == cfg.max_trade_usd
      total_slippage == SlippageLoop(opp, books, trade_size, 1, 0)
      gross_profit == FMul(opp.expected_profit, trade_size)
      fees == FMul(trade_size, cfg.fee_rate)
  IN  NetProfit(gross_profit, fees, total_slippage, trade_size) >= cfg.min_profit_usd

\* ------------------------------------------------------------ inputs
MaxLevels == 2

LevelPrices == {563, 614}
LevelSizes == {410, ONE}
Level == [price : LevelPrices, size : LevelSizes]

LevelLists == UNION {[1..l -> Level] : l \in 0..MaxLevels}

\* asks ascending, bids descending, at most MaxLevels levels in a book
Books ==
  {bk \in [bids : LevelLists, asks : LevelLists] :
     /\ Len(bk.bids) + Len(bk.asks) <= MaxLevels
     /\ \A i \in 1..(Len(bk.asks) - 1) : bk.asks[i].price <= bk.asks[i + 1].price
     /\ \A i \in 1..(Len(bk.bids) - 1) : bk.bids[i].price >= bk.bids[i + 1].price}

Sides == {"BUY", "SELL"}

\* requested sizes: none, inside the top level, the top level, beyond it and
\* beyond the depth of any book
RequestSizes == {0, 307, 410, ONE, 2 * ONE, (MaxLevels + 2) * ONE}

\* market_indices as main builds them: the entries above 1e-6, ascending
RECURSIVE MarketIndices(_, _)
MarketIndices(tv, i) ==
  IF i > Len(tv) THEN <<>>
  ELSE (IF Abs(tv[i]) > TV_MIN THEN <<i - 1>> ELSE <<>>) \o MarketIndices(tv, i + 1)

TradeEntries == {-307, 0, 1, 102}

\* opportunities as step 7 of main assembles them, over two markets, with a
\* profit rate of 0.15 (at the floor for a notional of 4) or 0.5
Opportunities ==
  {[market_indices |-> MarketIndices(tv, 1), trade_vector |-> tv,
    expected_profit |-> ep] : tv \in [1..2 -> TradeEntries], ep \in {154, HALF}}

\* the books fetched for the legs: the book at hand, or one with a side empty
LegBooks(bk) == {bk, [bk EXCEPT !.asks = <<>>], [bk EXCEPT !.bids = <<>>]}

\* configurations: fee_rate 0.02 and min_profit_usd 0.50 as by default, the
\* notional scaled down to 1 and 4 dollars
Configs ==
  [max_trade_usd : {ONE, 4 * ONE}, fee_rate : {20}, min_profit_usd : {HALF}]

\* ----------------------------------------------------------- actions
\* a call of computeVWAP; up to two calls are kept, to be compared
CallComputeVWAP(side, size) ==
  /\ ~ verdict.called /\ Len(calls) < 2
  /\ \A i \in 1..Len(calls) : calls[i].fn = "computeVWAP"
  /\ calls' = Append(calls, [fn |-> "computeVWAP", side |-> side, size |-> size,
                             ret |-> ComputeVWAP(book, side, size)])
  /\ UNCHANGED <<polyVars, num_markets, deps, op, feas, lp, fwVars,
                 extVars, glp_fails, book, verdict, scan, thr>>

\* a call of estimateSlippage
CallEstimateSlippage(side, size) ==
  /\ ~ verdict.called /\ calls = <<>>
  /\ calls' = <<[fn |-> "estimateSlippage", side |-> side, size |-> size,
                 ret |-> EstimateSlippage(book, side, size)]>>
  /\ UNCHANGED <<polyVars, num_markets, deps, op, feas, lp, fwVars,
                 extVars, glp_fails, book, verdict, scan, thr>>

\* a call of isProfitableAfterCosts
CallIsProfitableAfterCosts(opp, books, cfg) ==
  /\ ~ verdict.called /\ calls = <<>>
  /\ verdict' = [called |-> TRUE, opp |-> opp, books |-> books, cfg |-> cfg,
                 ret |-> IsProfitableAfterCosts(opp, books, cfg)]
  /\ UNCHANGED <<polyVars, num_markets, deps, op, feas, lp, fwVars,
                 extVars, glp_fails, book, calls, scan, thr>>

ExecInit ==
  /\ CoreInit /\ glp_fails = FALSE
  /\ book \in Books /\ calls = <<>> /\ verdict = NoVerdict
  /\ ScanIdle /\ ThreadsIdle /\ ExtIdle

ExecNext ==
  \/ \E side \in Sides : \E size \in RequestSizes : CallComputeVWAP(side, size)
  \/ \E side \in Sides : \E size \in RequestSizes : CallEstimateSlippage(side, size)
  \/ \E opp \in Opportunities : \E cfg \in Configs :
       \E books \in [1..Len(opp.market_indices) -> LegBooks(book)] :
         CallIsProfitableAfterCosts(opp, books, cfg)

ExecSpec == ExecInit /\ [][ExecNext]_vars

\* ------------------------------------------------ ExecutionEngine::execute
\* The call is split at the calls it makes to the feed: one step per leg of
\* the first loop (fetchOrderBook, then the order is submitted), one per
\* future of the second (submitOrder's answer), and the return.  The book a
\* leg is given, whether the latency budget is spent and whether an order is
\* accepted are the feed's and the clock's to decide.

\* prices outside [0.001, 0.999] make execute skip the leg
PRICE_LO == 1
PRICE_HI == ONE - 1

\* latency_budget_ms against elapsed_ms(start): spent or not
Clock == {"in_time", "late"}

\* submitOrder: an order id, or nullopt
Answers == {"id", "nullopt"}

\* TradeResult and the locals of execute before the first loop
ExecuteEntry(opp, n, cfg) ==
  [stage |-> "legs", opp |-> opp, markets |-> n, cfg |-> cfg, pos |-> 1,
   legs |-> <<>>, orders |-> <<>>,
   expected_pnl |-> opp.expected_profit, actual_pnl |-> 0, total_fees |-> 0,
   slippage |-> 0, fully_filled |-> TRUE, status |-> "PENDING"]

\* one pass of the loop over market_indices, with the book bk fetched for
\* the leg and the latency budget spent (late) or not
LegOutcome(tr, bk, late) ==
  LET idx == tr.opp.market_indices[tr.pos]
      tv == IF idx < Len(tr.opp.trade_vector) THEN tr.opp.trade_vector[idx + 1] ELSE 0
      side == LegSide(tv)
      usd_size == FMul(Abs(tv), tr.cfg.max_trade_usd)
      price == IF tv > 0 THEN BestAsk(bk) ELSE BestBid(bk)
  IN  IF idx >= tr.markets \/ Abs(tv) < TV_MIN
         \/ price < PRICE_LO \/ price > PRICE_HI \/ usd_size < ONE
        THEN [tr EXCEPT !.pos = @ + 1]                                \* continue
      ELSE IF late
        THEN [tr EXCEPT !.slippage = @ + EstimateSlippage(bk, side, usd_size),
                        !.status = "TIMEOUT", !.fully_filled = FALSE,
                        !.stage = "wait", !.pos = 1]                  \* break
      ELSE [tr EXCEPT !.slippage = @ + EstimateSlippage(bk, side, usd_size),
                      !.legs = Append(@, [side |-> side, price |-> price,
                                          size |-> (usd_size * ONE) \div price,
                                          tv |-> tv,
                                          vwap_usd |-> ComputeVWAP(bk, side, usd_size)]),
                      !.pos = @ + 1]

\* one pass of the loop over the futures: the answer to the order of leg
\* tr.pos
WaitOutcome(tr, answer) ==
  LET pending == tr.legs[tr.pos]
      order == [side |-> pending.side, price |-> pending.price, size |-> pending.size,
                order_id |-> IF answer = "nullopt" THEN "FAILED" ELSE "id"]
  IN  IF answer = "nullopt"
        THEN [tr EXCEPT !.orders = Append(@, order), !.fully_filled = FALSE,
                        !.status = "PARTIAL", !.pos = @ + 1]
        ELSE [tr EXCEPT !.orders = Append(@, order),
                        !.total_fees = @ + FMul(FMul(pending.size, pending.vwap_usd),
                                                tr.cfg.fee_rate),
                        !.pos = @ + 1]

RECURSIVE SlipCost(_, _)
\* total_slip_cost over the legs from the i-th on
SlipCost(legs, i) ==
  IF i > Len(legs) THEN 0
  ELSE (FMul(legs[i].size, legs[i].vwap_usd)
          * Abs(legs[i].vwap_usd - legs[i].price)) \div legs[i].price
       + SlipCost(legs, i + 1)

\* the statements after the loops, up to the return
Finished(tr) ==
  [tr EXCEPT !.actual_pnl = FMul(tr.expected_pnl, tr.cfg.max_trade_usd)
                              - tr.total_fees - SlipCost(tr.legs, 1),
             !.status = IF tr.fully_filled THEN "FILLED" ELSE @,
             !.stage = "returned"]

\* execute(opp, markets) is called, markets holding n markets
ExecuteBegin(opp, n, cfg) ==
  /\ trade = NoTrade
  /\ trade' = ExecuteEntry(opp, n, cfg)
  /\ UNCHANGED <<polyVars, num_markets, deps, op, feas, lp, fwVars,
                 breg, dg, glp_fails, book, calls, verdict, scan, thr>>

\* a pass of the first loop
ExecuteLeg ==
  /\ trade.stage = "legs" /\ trade.pos <= Len(trade.opp.market_indices)
  /\ \E bk \in LegBooks(book) : \E clock \in Clock :
       trade' = LegOutcome(trade, bk, clock = "late")
  /\ UNCHANGED <<polyVars, num_markets, deps, op, feas, lp, fwVars,
                 breg, dg, glp_fails, book, calls, verdict, scan, thr>>

\* the first loop has run through market_indices
ExecuteSubmitted ==
  /\ trade.stage = "legs" /\ trade.pos > Len(trade.opp.market_indices)
  /\ trade' = [trade EXCEPT !.stage = "wait", !.pos = 1]
  /\ UNCHANGED <<polyVars, num_markets, deps, op, feas, lp, fwVars,
                 breg, dg, glp_fails, book, calls, verdict, scan, thr>>

\* a pass of the second loop
ExecuteWait ==
  /\ trade.stage = "wait" /\ trade.pos <= Len(trade.legs)
  /\ \E answer \in Answers : trade' = WaitOutcome(trade, answer)
  /\ UNCHANGED <<polyVars, num_markets, deps, op, feas, lp, fwVars,
                 breg, dg, glp_fails, book, calls, verdict, scan, thr>>

\* the rest of execute
ExecuteReturn ==
  /\ trade.stage = "wait" /\ trade.pos > Len(trade.legs)
  /\ trade' = Finished(trade)
  /\ UNCHANGED <<polyVars, num_markets, deps, op, feas, lp, fwVars,
                 breg, dg, glp_fails, book, calls, verdict, scan, thr>>

\* execute on the opportunities and configurations above, over one and two
\* markets, on a book with both sides
TradeInit ==
  /\ CoreInit /\ glp_fails = FALSE
  /\ book \in {bk \in Books : Len(bk.bids) = 1 /\ Len(bk.asks) = 1}
  /\ calls = <<>> /\ verdict = NoVerdict
  /\ ScanIdle /\ ThreadsIdle /\ ExtIdle

TradeNext ==
  \/ \E opp \in Opportunities : \E n \in {1, 2} : \E cfg \in Configs :
       ExecuteBegin(opp, n, cfg)
  \/ ExecuteLeg
  \/ ExecuteSubmitted
  \/ ExecuteWait
  \/ ExecuteReturn

TradeSpec == TradeInit /\ [][TradeNext]_vars

\* ================================================================ scan tick
\* One pass of the loop of main, steps 3 to 7: build the polytope, check the
\* prices, project them if they are infeasible, screen the profit and
\* assemble the opportunity.  scan.stage is "tick" during the pass and
\* "done" at its end; the profit is counted in 1/LNS as in optimize.

\* the configuration of a tick: min_profit_usd 0.50 by default
ScanConfigs == [min_profit_usd : {LNS \div 2}, fw_max_iters : {MaxIters},
                fw_tolerance : {1}]

\* markets.size() in a tick
ScanMarkets == {2, 3}

\* step 3
ScanBuild(n, ds) ==
  /\ scan.stage = "tick" /\ op = "none"
  /\ BuildConstraints(n, ds)

\* steps 4 and 5
ScanCheck(pr) ==
  /\ scan.stage = "tick" /\ op = "build"
  /\ CheckFeasibility(pr)

\* step 5, prices feasible: the tick ends (continue)
ScanFeasible ==
  /\ scan.stage = "tick" /\ op = "check" /\ feas.feasible
  /\ scan' = [scan EXCEPT !.stage = "done"]
  /\ UNCHANGED <<polyVars, num_markets, deps, op, feas, lp, fwVars,
                 extVars, glp_fails, book, calls, verdict, thr>>

\* step 6: fw.optimize(prices, polytope, cfg.fw_max_iters, cfg.fw_tolerance)
ScanProject ==
  /\ scan.stage = "tick" /\ op = "check" /\ ~ feas.feasible /\ pc = "idle"
  /\ EnterOptimize(feas.prices, scan.cfg.fw_max_iters, scan.cfg.fw_tolerance)
  /\ scan' = [scan EXCEPT !.projected = TRUE]
  /\ UNCHANGED <<polyVars, num_markets, deps, feas,
                 extVars, glp_fails, book, calls, verdict, thr>>

\* the test that ends the tick without an opportunity
BelowMinimum(profit, cfg) == profit < cfg.min_profit_usd

\* step 7: the opportunity built from the result
Assemble ==
  [market_indices |-> MarketIndices(result.trade_vector, 1),
   current_prices |-> prices,
   optimal_prices |-> result.optimal,
   trade_vector |-> result.trade_vector,
   expected_profit |-> result.profit,
   mispricing_pct |-> feas.violation]

\* steps 6 and 7 after optimize has returned
ScanAssemble ==
  /\ scan.stage = "tick" /\ op = "optimize" /\ pc = "idle"
  /\ \/ /\ BelowMinimum(result.profit, scan.cfg)                 \* continue
        /\ scan' = [scan EXCEPT !.stage = "done"]
     \/ /\ ~ BelowMinimum(result.profit, scan.cfg)
        /\ scan' = [scan EXCEPT !.stage = "done", !.emitted = TRUE,
                                !.opp = Assemble]
  /\ UNCHANGED <<polyVars, num_markets, deps, op, feas, lp, fwVars,
                 extVars, glp_fails, book, calls, verdict, thr>>

ScanInit ==
  /\ CoreInit /\ glp_fails = FALSE /\ ExecIdle /\ ThreadsIdle /\ ExtIdle
  /\ \E cfg \in ScanConfigs :
       scan = [stage |-> "tick", cfg |-> cfg, projected |-> FALSE,
               emitted |-> FALSE, opp |-> <<>>]

ScanNext ==
  \/ \E n \in ScanMarkets : \E ds \in DepLists(n) : ScanBuild(n, ds)
  \/ \E pr \in OptPrices(num_vars) : ScanCheck(pr)
  \/ ScanFeasible
  \/ ScanProject
  \/ OptimizeIterate
  \/ OptimizeExhaust
  \/ OptimizeReturn
  \/ ScanAssemble

ScanSpec == ScanInit /\ [][ScanNext]_vars

\* ============================================================ the whole tick
\* Steps 3 to 10 of the loop of main: the scan tick above, then the order
\* books of the legs, isProfitableAfterCosts and execute.  solveLP may fail
\* in any pass of optimize.  The profit of optimize is counted in 1/LNS, the
\* dollars of the execution engine in 1/ONE.

TickConfigs ==
  [min_profit_usd : {LNS \div 2}, fw_max_iters : {MaxIters}, fw_tolerance : {1},
   max_trade_usd : {ONE, 4 * ONE}, fee_rate : {20}]

\* markets.size() in a tick
TickMarkets == {2}

\* the configuration as the execution engine reads it
ExecConfigOf(cfg) ==
  [max_trade_usd |-> cfg.max_trade_usd, fee_rate |-> cfg.fee_rate,
   min_profit_usd |-> cfg.min_profit_usd \div (LNS \div ONE)]

\* the opportunity of step 7 as the execution engine reads it
ExecOppOf(o) ==
  [market_indices |-> o.market_indices, trade_vector |-> o.trade_vector,
   expected_profit |-> o.expected_profit \div (LNS \div ONE)]

\* the books the feed may hold for a token
TickBooks == {[bids |-> <<[price |-> 563, size |-> ONE]>>,
               asks |-> <<[price |-> 614, size |-> ONE]>>]}

\* step 8: books has, for each entry of market_indices in turn, the book
\* the cache (or the feed) holds for that market
BooksOfLegs(opp, cache) ==
  [i \in 1..Len(opp.market_indices) |-> cache[opp.market_indices[i]]]

\* steps 8 and 9: the books are collected and isProfitableAfterCosts is called
TickProfitable ==
  /\ scan.stage = "done" /\ scan.emitted /\ ~ verdict.called
  /\ \E bk \in TickBooks : \E cache \in [0..(num_markets - 1) -> LegBooks(bk)] :
       LET opp == ExecOppOf(scan.opp)
           books == BooksOfLegs(opp, cache)
       IN  /\ book' = bk
           /\ verdict' = [called |-> TRUE, opp |-> opp, books |-> books,
                          cfg |-> ExecConfigOf(scan.cfg), cache |-> cache,
                          ret |-> IsProfitableAfterCosts(opp, books,
                                                         ExecConfigOf(scan.cfg))]
  /\ UNCHANGED <<polyVars, num_markets, deps, op, feas, lp, fwVars,
                 extVars, glp_fails, calls, scan, thr>>

\* step 9, not profitable: the tick ends (continue)
TickSkip ==
  /\ verdict.called /\ ~ verdict.ret /\ ~ scan.skipped
  /\ scan' = [scan EXCEPT !.skipped = TRUE]
  /\ UNCHANGED <<polyVars, num_markets, deps, op, feas, lp, fwVars,
                 extVars, glp_fails, book, calls, verdict, thr>>

\* mutant of TickExecute: execute is called whatever the verdict
TickExecuteUnchecked ==
  /\ verdict.called
  /\ ExecuteBegin(verdict.opp, num_markets, verdict.cfg)

\* step 10: exec.execute(opp, markets)
TickExecute ==
  /\ verdict.called /\ verdict.ret
  /\ ExecuteBegin(verdict.opp, num_markets, verdict.cfg)

\* mutant of TickProject: optimize is called whatever checkFeasibility said
TickProjectAlways ==
  /\ scan.stage = "tick" /\ op = "check" /\ pc = "idle"
  /\ EnterOptimize(feas.prices, scan.cfg.fw_max_iters, scan.cfg.fw_tolerance)
  /\ scan' = [scan EXCEPT !.projected = TRUE]
  /\ UNCHANGED <<polyVars, num_markets, deps, feas,
                 extVars, glp_fails, book, calls, verdict, thr>>

\* step 6, reached when step 5 did not continue
TickProject == ScanProject

TickInit ==
  /\ CoreInit /\ glp_fails = TRUE /\ ExecIdle /\ ThreadsIdle /\ ExtIdle
  /\ \E cfg \in TickConfigs :
       scan = [stage |-> "tick", cfg |-> cfg, projected |-> FALSE,
               emitted |-> FALSE, opp |-> <<>>, skipped |-> FALSE]

TickNext ==
  \/ \E n \in TickMarkets : \E ds \in DepLists(n) : ScanBuild(n, ds)
  \/ \E pr \in OptPrices(num_vars) : ScanCheck(pr)
  \/ ScanFeasible
  \/ TickProject
  \/ OptimizeIterate
  \/ OptimizeExhaust
  \/ OptimizeReturn
  \/ ScanAssemble
  \/ TickProfitable
  \/ TickSkip
  \/ TickExecute
  \/ ExecuteLeg
  \/ ExecuteSubmitted
  \/ ExecuteWait
  \/ ExecuteReturn

TickSpec == TickInit /\ [][TickNext]_vars

\* ========================================================= shared polytope
\* One polytope, built once, and three threads on it: the main thread runs
\* optimize (the actions above), each worker runs checkFeasibility or solveLP
\* on its own argument.  A worker's call is split at every read of a member
\* of the polytope, and what it has read is kept in its locals thr[t]:
\* row_values and result for checkFeasibility, the glp_prob for solveLP.

Workers == {1, 2}

\* dependency lists of two markets, with no, one and two rows
SharedDepLists ==
  {<<>>,
   <<[market_i |-> 0, market_j |-> 1, relation |-> "MUTEX"]>>,
   <<[market_i |-> 0, market_j |-> 1, relation |-> "EXACTLY_ONE"]>>,
   <<[market_i |-> 1, market_j |-> 0, relation |-> "IMPLIES"],
     [market_i |-> 0, market_j |-> 1, relation |-> "MUTEX"]>>}

\* the price vectors of the threads: one per worker call and one for optimize
SharedCheckPrices == {<<300, 740>>, <<740, 284>>}
SharedOptPrices == {<<717, 614>>}

\* the objectives of the workers' solveLP calls, in units of 1/GS
SharedObjectives == {<<GS, -GS>>, <<-GS, -GS>>}

NoProblem == [cols |-> 0, lb |-> <<>>, ub |-> <<>>, rows |-> 0, bu |-> <<>>,
              bl |-> <<>>, trips |-> <<>>]

\* a worker outside a call
IdleWorker == [call |-> "none", at |-> "idle", arg |-> <<>>, pos |-> 0,
               rv |-> <<>>, ret |-> NoSolution, prob |-> NoProblem]

\* checkFeasibility up to the loop over the triplets: the result is
\* initialised, and returned at once when there is no row
WorkerCheckBegin(t, pr) ==
  /\ op # "none" /\ thr[t].at = "idle"
  /\ LET res0 == [feasible |-> TRUE, violation |-> 0,
                  dual |-> [r \in 1..num_constraints |-> 0]]
     IN  thr' = [thr EXCEPT ![t] =
                   [call |-> "check",
                    at |-> IF num_constraints = 0 THEN "done" ELSE "triplets",
                    arg |-> pr, pos |-> 1,
                    rv |-> [r \in 1..num_constraints |-> 0],
                    ret |-> res0, prob |-> NoProblem]]
  /\ UNCHANGED <<polyVars, num_markets, deps, op, feas, lp, fwVars,
                 extVars, glp_fails, book, calls, verdict, scan>>

\* mutant of WorkerCheckTriplet: the triplet, taken by non-const reference,
\* is scaled by the price in place
WorkerCheckTripletInPlace(t) ==
  /\ thr[t].call = "check" /\ thr[t].at = "triplets"
  /\ thr[t].pos <= Len(A_triplets)
  /\ LET tr == A_triplets[thr[t].pos]
     IN  /\ A_triplets' = [A_triplets EXCEPT ![thr[t].pos].val =
                              @ * thr[t].arg[tr.col + 1]]
         /\ thr' = [thr EXCEPT
                      ![t].rv = RowValues(<<tr>>, thr[t].arg, 1, @),
                      ![t].pos = @ + 1,
                      ![t].at = IF thr[t].pos = Len(A_triplets)
                                  THEN "rows" ELSE "triplets"]
  /\ UNCHANGED <<num_vars, num_constraints, b_upper, b_lower, var_lb, var_ub,
                 num_markets, deps, op, feas, lp, fwVars,
                 extVars, glp_fails, book, calls, verdict, scan>>

\* one pass of the loop over A_triplets_
WorkerCheckTriplet(t) ==
  /\ thr[t].call = "check" /\ thr[t].at = "triplets"
  /\ thr[t].pos <= Len(A_triplets)
  /\ thr' = [thr EXCEPT
               ![t].rv = RowValues(<<A_triplets[thr[t].pos]>>, thr[t].arg, 1, @),
               ![t].pos = IF thr[t].pos = Len(A_triplets) THEN 0 ELSE @ + 1,
               ![t].at = IF thr[t].pos = Len(A_triplets)
                           THEN "rows" ELSE "triplets"]
  /\ UNCHANGED <<polyVars, num_markets, deps, op, feas, lp, fwVars,
                 extVars, glp_fails, book, calls, verdict, scan>>

\* one pass of the loop over the rows (pos is r), and the return after the
\* last
WorkerCheckRow(t) ==
  /\ thr[t].call = "check" /\ thr[t].at = "rows"
  /\ thr[t].pos < num_constraints
  /\ LET r == thr[t].pos
     IN  thr' = [thr EXCEPT
                   ![t].ret = CheckRow(@, r, thr[t].rv[r + 1],
                                       b_upper[r + 1], b_lower[r + 1]),
                   ![t].pos = r + 1,
                   ![t].at = IF r + 1 = num_constraints THEN "done" ELSE "rows"]
  /\ UNCHANGED <<polyVars, num_markets, deps, op, feas, lp, fwVars,
                 extVars, glp_fails, book, calls, verdict, scan>>

\* solveLP up to the loop over the rows: nullopt without variables, else the
\* columns of the private glp_prob get the variable bounds
WorkerSolveBegin(t, c) ==
  /\ op # "none" /\ thr[t].at = "idle"
  /\ thr' = [thr EXCEPT ![t] =
               [call |-> "solve",
                at |-> IF num_vars = 0 THEN "done" ELSE "cols",
                arg |-> c, pos |-> 0, rv |-> <<>>, ret |-> NoSolution,
                prob |-> IF num_vars = 0 THEN NoProblem
                         ELSE [NoProblem EXCEPT !.cols = num_vars,
                                                !.lb = var_lb, !.ub = var_ub]]]
  /\ UNCHANGED <<polyVars, num_markets, deps, op, feas, lp, fwVars,
                 extVars, glp_fails, book, calls, verdict, scan>>

\* the rows of the glp_prob get the row bounds
WorkerSolveRows(t) ==
  /\ thr[t].call = "solve" /\ thr[t].at = "cols"
  /\ thr' = [thr EXCEPT ![t].at = "rows",
                        ![t].prob = [@ EXCEPT !.rows = num_constraints,
                                              !.bu = b_upper, !.bl = b_lower]]
  /\ UNCHANGED <<polyVars, num_markets, deps, op, feas, lp, fwVars,
                 extVars, glp_fails, book, calls, verdict, scan>>

\* glp_load_matrix from the triplets
WorkerSolveMatrix(t) ==
  /\ thr[t].call = "solve" /\ thr[t].at = "rows"
  /\ thr' = [thr EXCEPT ![t].at = "matrix",
                        ![t].prob = [@ EXCEPT !.trips = A_triplets]]
  /\ UNCHANGED <<polyVars, num_markets, deps, op, feas, lp, fwVars,
                 extVars, glp_fails, book, calls, verdict, scan>>

\* glp_simplex on the private glp_prob, and the return
WorkerSolveSimplex(t) ==
  /\ thr[t].call = "solve" /\ thr[t].at = "matrix"
  /\ \E ret \in SolveLPOrFail(thr[t].arg) :
       thr' = [thr EXCEPT ![t].at = "done", ![t].ret = ret]
  /\ UNCHANGED <<polyVars, num_markets, deps, op, feas, lp, fwVars,
                 extVars, glp_fails, book, calls, verdict, scan>>

\* the caller has taken the result: the thread is free for its next call
WorkerReturn(t) ==
  /\ thr[t].at = "done"
  /\ thr' = [thr EXCEPT ![t] = IdleWorker]
  /\ UNCHANGED <<polyVars, num_markets, deps, op, feas, lp, fwVars,
                 extVars, glp_fails, book, calls, verdict, scan>>

\* the main thread: the polytope is built before the threads start, then
\* optimize is called on it
SharedBuild(ds) == BuildConstraints(2, ds)

SharedOptimize(pr) ==
  /\ op = "build"
  /\ OptimizeBegin(pr, MaxIters, 1)

SharedInit ==
  /\ CoreInit /\ glp_fails = FALSE /\ ExecIdle /\ ScanIdle /\ ExtIdle
  /\ thr = [t \in Workers |-> IdleWorker]

SharedNext ==
  \/ \E ds \in SharedDepLists : SharedBuild(ds)
  \/ \E pr \in SharedOptPrices : SharedOptimize(pr)
  \/ OptimizeIterate
  \/ OptimizeExhaust
  \/ OptimizeReturn
  \/ \E t \in Workers : \E pr \in SharedCheckPrices : WorkerCheckBegin(t, pr)
  \/ \E t \in Workers : WorkerCheckTriplet(t)
  \/ \E t \in Workers : WorkerCheckRow(t)
  \/ \E t \in Workers : \E c \in SharedObjectives : WorkerSolveBegin(t, c)
  \/ \E t \in Workers : WorkerSolveRows(t)
  \/ \E t \in Workers : WorkerSolveMatrix(t)
  \/ \E t \in Workers : WorkerSolveSimplex(t)
  \/ \E t \in Workers : WorkerReturn(t)

SharedSpec == SharedInit /\ [][SharedNext]_vars

\* ============================================================ any polytope
\* buildConstraints on any dependency list with indices in [0, n), from one
\* market on and market_i = market_j included, and checkFeasibility on the
\* result.

PolyMarkets == {1, 2, 3}

\* every dependency over n markets; the markets of an INDEPENDENT one are
\* never read, so one pair stands for all
AnyDeps(n) ==
  {d \in [market_i : 0..(n - 1), market_j : 0..(n - 1), relation : Relations] :
     d.relation = "INDEPENDENT" => (d.market_i = 0 /\ d.market_j = 0)}

DepsOf(n, rel) == {d \in AnyDeps(n) : d.relation = rel}

\* the lists of up to MaxDeps dependencies, and the lists that hold one
\* dependency of each of the three relations that give a row
PolyDepLists(n) ==
  UNION {[1..l -> AnyDeps(n)] : l \in 0..MaxDeps}
    \cup {<<a, b, c>> : a \in DepsOf(n, "IMPLIES"), b \in DepsOf(n, "MUTEX"),
                        c \in DepsOf(n, "EXACTLY_ONE")}

\* the centre and the corner 0 of the cube
PolyPrices(n) == {[i \in 1..n |-> v] : v \in {0, HALF}}

PolyBuild(n, ds) == BuildConstraints(n, ds)

PolyCheck(pr) ==
  /\ op = "build"
  /\ CheckFeasibility(pr)

PolyNext ==
  \/ op = "none" /\ \E n \in PolyMarkets : \E ds \in PolyDepLists(n) : PolyBuild(n, ds)
  \/ op = "build" /\ \E pr \in PolyPrices(num_vars) : PolyCheck(pr)

PolySpec == Init /\ [][PolyNext]_vars

\* ================================================================= rebuild
\* main keeps one polytope and calls buildConstraints on it in every cycle
\* (step 3).  Here the call acts on whatever the members hold: the vectors
\* are cleared and the rows pushed onto them.  scan counts the cycles and
\* keeps the arguments of the cycle before.

MaxCycles == 3

\* mutant of Cleared: the vector keeps its elements
ClearedKept(v) == v

\* std::vector::clear()
Cleared(v) == <<>>

\* the arguments of a call: markets.size() and the dependencies
RebuildArgs ==
  {<<2, <<>>>>,
   <<2, <<[market_i |-> 0, market_j |-> 1, relation |-> "MUTEX"]>>>>,
   <<2, <<[market_i |-> 1, market_j |-> 0, relation |-> "IMPLIES"],
          [market_i |-> 0, market_j |-> 1, relation |-> "EXACTLY_ONE"]>>>>,
   <<3, <<[market_i |-> 0, market_j |-> 1, relation |-> "INDEPENDENT"],
          [market_i |-> 1, market_j |-> 2, relation |-> "MUTEX"]>>>>,
   <<3, <<[market_i |-> 2, market_j |-> 1, relation |-> "IMPLIES"],
          [market_i |-> 1, market_j |-> 0, relation |-> "IMPLIES"]>>>>}

\* MarginalPolytope::buildConstraints(n, ds) on a polytope in any state
RebuildConstraints(n, ds) ==
  /\ pc = "idle" /\ scan.cycle < MaxCycles
  /\ LET rows == BuildRows(ds, 1, [row |-> 0, trip |-> Cleared(A_triplets),
                                   bu |-> Cleared(b_upper),
                                   bl |-> Cleared(b_lower)])
     IN  /\ num_vars' = n
         /\ A_triplets' = rows.trip
         /\ b_upper' = rows.bu
         /\ b_lower' = rows.bl
         /\ var_lb' = [j \in 1..n |-> 0]
         /\ var_ub' = [j \in 1..n |-> ONE]
         /\ num_constraints' = rows.row
  /\ num_markets' = n /\ deps' = ds
  /\ op' = "build" /\ feas' = NoFeas /\ lp' = NoLP
  /\ FwIdle
  /\ scan' = [scan EXCEPT !.cycle = @ + 1, !.before = <<num_markets, deps>>]
  /\ UNCHANGED <<extVars, glp_fails, book, calls, verdict, thr>>

\* step 5 of the cycle
RebuildCheck(pr) ==
  /\ op = "build"
  /\ CheckFeasibility(pr)

RebuildInit ==
  /\ CoreInit /\ glp_fails = FALSE /\ ExecIdle /\ ThreadsIdle /\ ExtIdle
  /\ scan = [stage |-> "cycles", cycle |-> 0, before |-> <<0, <<>>>>]

RebuildNext ==
  \/ \E a \in RebuildArgs : RebuildConstraints(a[1], a[2])
  \/ \E pr \in PolyPrices(num_vars) : RebuildCheck(pr)

RebuildSpec == RebuildInit /\ [][RebuildNext]_vars

\* ======================================================= BregmanProjection
\* breg holds the locals of one call of BregmanProjection::project: its
\* position, arguments, p, q, k, the number of passes entered, the last
\* solveLP call and the result.

\* BregmanProjection::clamp
clamp(v) == [i \in 1..Len(v) |-> Max(EPS, Min(ONE - EPS, v[i]))]

\* BregmanProjection::klDivergence(a, b): D_KL(a || b) of the clamped
\* vectors, in units of 1/LNS
klDivergence(a, b) ==
  LET qc == clamp(a)
      pc_ == clamp(b)
  IN  SumTo([i \in 1..Len(qc) |->
               (qc[i] * (Log[qc[i]] - Log[pc_[i]])) \div ONE
                 + ((ONE - qc[i]) * (Log[ONE - qc[i]] - Log[ONE - pc_[i]])) \div ONE],
            Len(qc))

\* mutant of ProjectStart: the iteration starts at the clamped prices
ProjectStartAtPrices(pp) == pp

\* q = Constant(n, 0.5), n = p.size()
ProjectStart(pp) == [i \in 1..Len(pp) |-> HALF]

\* grad[i] = -p[i]/qi + (1-p[i])/(1-qi) of project, in units of 1/GS
ProjectGradient(pp, qq) ==
  [i \in 1..Len(pp) |->
     LET qi == Max(EPS, Min(ONE - EPS, qq[i]))
     IN  -((pp[i] * GS) \div qi) + (((ONE - pp[i]) * GS) \div (ONE - qi))]

\* gap = grad.dot(q - v) of project
ProjectGap(grad, qq, v) == Dot(grad, [i \in 1..Len(qq) |-> qq[i] - v[i]])

\* klAtGamma(g) of project
ProjectKLAtGamma(pp, qq, v, g) ==
  SumTo([i \in 1..Len(pp) |->
           LET qi == Max(EPS, Min(ONE - EPS, Mix(g, qq[i], v[i])))
           IN  (pp[i] * (Log[pp[i]] - Log[qi])) \div ONE
                 + ((ONE - pp[i]) * (Log[ONE - pp[i]] - Log[ONE - qi])) \div ONE],
        Len(pp))

RECURSIVE ProjectLineSearch(_, _, _, _, _, _)
\* the line search of project from its ls-th step on
ProjectLineSearch(pp, qq, v, lo, hi, ls) ==
  IF ls >= LS_STEPS THEN [lo |-> lo, hi |-> hi, steps |-> ls]
  ELSE LET g1 == lo + (hi - lo) \div 3
           g2 == lo + (2 * (hi - lo)) \div 3
       IN  IF ProjectKLAtGamma(pp, qq, v, g1) < ProjectKLAtGamma(pp, qq, v, g2)
             THEN ProjectLineSearch(pp, qq, v, lo, g2, ls + 1)
             ELSE ProjectLineSearch(pp, qq, v, g1, hi, ls + 1)

\* gamma = (gamma_lo + gamma_hi) / 2; q = (1-gamma) q + gamma v; q = clamp(q)
ProjectUpdate(qq, v, search) ==
  LET gamma == (search.lo + search.hi) \div 2
  IN  clamp([i \in 1..Len(qq) |-> Mix(gamma, qq[i], v[i])])

NoProjection == [projected |-> <<>>, divergence |-> 0, iterations |-> 0,
                 converged |-> FALSE]

bregFrame ==
  <<polyVars, num_markets, deps, op, feas, lp, fwVars, trade, dg, glp_fails,
    book, calls, verdict, scan, thr>>

\* optimize, run on the same arguments, is a step ahead of project
OptimizeAhead == pc # "loop" \/ breg.passes < hist.lp_calls

\* GLPK is deterministic and solveLP hands it a fresh problem in every call:
\* on the objective of optimize's last call project gets the answer optimize
\* got
SameOracle(grad, ret) == (lp.c = grad) => (ret = lp.ret)

\* BregmanProjection::project, up to the loop
ProjectBegin(pr, mi, tol) ==
  /\ breg = NoBregman
  /\ breg' = [pc |-> "loop", prices |-> pr, max_iters |-> mi, tolerance |-> tol,
              p |-> clamp(pr), q |-> ProjectStart(clamp(pr)), k |-> 0,
              passes |-> 0, lp |-> NoLP, result |-> NoProjection,
              exit |-> "none"]
  /\ UNCHANGED bregFrame

\* one pass of the loop body of project
ProjectIterate ==
  /\ breg.pc = "loop" /\ breg.k < breg.max_iters
  /\ OptimizeAhead
  /\ LET grad == ProjectGradient(breg.p, breg.q)
     IN  \E ret \in SolveLPOrFail(grad) :
           /\ SameOracle(grad, ret)
           /\ \/ /\ ~ ret.ok
                 /\ breg' = [breg EXCEPT !.pc = "exit", !.passes = @ + 1,
                                !.lp = [c |-> grad, ret |-> ret],
                                !.result.iterations = breg.k + 1,
                                !.exit = "lp_failed"]
              \/ /\ ret.ok
                 /\ ProjectGap(grad, breg.q, ret.x) < breg.tolerance
                 /\ breg' = [breg EXCEPT !.pc = "exit", !.passes = @ + 1,
                                !.lp = [c |-> grad, ret |-> ret],
                                !.result.iterations = breg.k + 1,
                                !.result.converged = TRUE,
                                !.exit = "converged"]
              \/ /\ ret.ok
                 /\ ~ (ProjectGap(grad, breg.q, ret.x) < breg.tolerance)
                 /\ breg' = [breg EXCEPT !.passes = @ + 1,
                                !.lp = [c |-> grad, ret |-> ret],
                                !.result.iterations = breg.k + 1,
                                !.q = ProjectUpdate(breg.q, ret.x,
                                        ProjectLineSearch(breg.p, breg.q, ret.x,
                                                          0, GAM, 0)),
                                !.k = @ + 1]
  /\ UNCHANGED bregFrame

\* the loop condition of project fails
ProjectExhaust ==
  /\ breg.pc = "loop" /\ ~ (breg.k < breg.max_iters)
  /\ OptimizeAhead
  /\ breg' = [breg EXCEPT !.pc = "exit", !.exit = "max_iters"]
  /\ UNCHANGED bregFrame

\* after the loop of project
ProjectReturn ==
  /\ breg.pc = "exit"
  /\ breg' = [breg EXCEPT !.pc = "done", !.result.projected = breg.q,
                          !.result.divergence = klDivergence(breg.p, breg.q)]
  /\ UNCHANGED bregFrame

\* ------------------------------------------- optimize and project together
\* project has caught up with optimize
ProjectLevel == breg # NoBregman /\ breg.pc = "loop" /\ breg.passes = hist.lp_calls

\* both calls on one polytope; every step of optimize is followed by the
\* step of project
SideNext ==
  \/ /\ op = "none"
     /\ \E ds \in DepLists(2) : BuildConstraints(2, ds)
  \/ /\ op = "build"
     /\ \E pr \in OptPrices(num_vars) : \E mi \in {0, MaxIters} :
          \E tol \in Tolerances : OptimizeBegin(pr, mi, tol)
  \/ /\ op = "optimize" /\ pc = "loop"
     /\ ProjectBegin(prices, max_iters, tolerance)
  \/ ProjectLevel /\ OptimizeIterate
  \/ ProjectLevel /\ OptimizeExhaust
  \/ OptimizeReturn
  \/ ProjectIterate
  \/ ProjectExhaust
  \/ ProjectReturn

SideSpec == FaultInit /\ [][SideNext]_vars

\* ------------------------------------------- solveLP on any dependency set
\* dependency sets with in-range indices and market_i # market_j: for two
\* markets every one, for three markets a symmetric relation once per pair
\* (the row of (j, i) has the coefficients of the row of (i, j))
LPMarkets == {1, 2, 3}

LPDeps(n) ==
  {d \in [market_i : 0..(n - 1), market_j : 0..(n - 1), relation : Relations] :
     /\ d.market_i # d.market_j
     /\ (n > 2 /\ d.relation \in {"MUTEX", "EXACTLY_ONE"}) => d.market_i < d.market_j
     /\ d.relation = "INDEPENDENT" => (d.market_i = 0 /\ d.market_j = 1)}

\* the place of a dependency in the order (market_i, market_j, relation)
DepRank(d) ==
  16 * d.market_i + 4 * d.market_j
    + (CASE d.relation = "IMPLIES" -> 0 [] d.relation = "MUTEX" -> 1
         [] d.relation = "EXACTLY_ONE" -> 2 [] d.relation = "INDEPENDENT" -> 3)

\* the lists of up to MaxDeps of them: for two markets in every order, for
\* three markets in the order of DepRank
LPDepLists(n) ==
  {ds \in UNION {[1..l -> LPDeps(n)] : l \in 0..MaxDeps} :
     n > 2 => \A i \in 1..(Len(ds) - 1) : DepRank(ds[i]) <= DepRank(ds[i + 1])}

\* prices on the border of the cube, where the gradient is largest
LPPrices(n) == {[i \in 1..n |-> IF i % 2 = 1 THEN ONE ELSE 0]}

\* the objectives of the direct calls, in units of 1/GS: every market bought,
\* and bought and sold in turn
LPObjectives(n) ==
  {[i \in 1..n |-> -GS], [i \in 1..n |-> IF i % 2 = 1 THEN GS ELSE -GS]}

LPNext ==
  \/ /\ op = "none"
     /\ \E n \in LPMarkets : \E ds \in LPDepLists(n) : BuildConstraints(n, ds)
  \/ /\ op = "build"
     /\ \E c \in LPObjectives(num_vars) : SolveLPCall(c)
  \/ /\ op = "build"
     /\ \E pr \in LPPrices(num_vars) : OptimizeBegin(pr, MaxIters, 1)
  \/ /\ op = "optimize" /\ pc = "loop"
     /\ ProjectBegin(prices, max_iters, tolerance)
  \/ ProjectLevel /\ OptimizeIterate
  \/ ProjectLevel /\ OptimizeExhaust
  \/ breg # NoBregman /\ breg.pc = "done" /\ OptimizeReturn
  \/ ProjectIterate
  \/ ProjectExhaust
  \/ ProjectReturn

LPSpec == Init /\ [][LPNext]_vars

\* ========================================================= DependencyGraph
\* dg holds the DependencyGraph and the two threads that use it: the markets
\* of the main loop, cache_ (a key is the pair of condition ids joined by
\* ":"), the holder of cache_mutex_, is_discovering_, the discovery tasks
\* started so far with their locals, the position of the main thread inside
\* startAsyncDiscovery or getDependencies, and the last access to cache_.

MaxTasks == 2
MaxLines == 2
MAX_PAIRS == 5

ConditionIds == {"a", "b", "c"}
MarketA == [condition_id |-> "a", category |-> "politics"]
MarketB == [condition_id |-> "b", category |-> "politics"]
MarketC == [condition_id |-> "c", category |-> "politics"]
MarketS == [condition_id |-> "c", category |-> "sports"]

\* the market lists the feed returns
GraphMarkets ==
  {<<MarketA, MarketB, MarketC>>, <<MarketB, MarketA, MarketS>>}

\* key = first.condition_id + ":" + second.condition_id
Key(m1, m2) == <<m1.condition_id, m2.condition_id>>
Keys == ConditionIds \X ConditionIds

Absent == "absent"
EmptyCache == [key \in Keys |-> Absent]

\* mutant of InnerStart: the inner loop starts at the first market
InnerStartZero(i) == 0

\* the first j of the inner loop, j = i + 1
InnerStart(i) == i + 1

RECURSIVE PairsFrom(_, _, _)
\* the index pairs the two loops visit from (i, j) on, n markets
PairsFrom(i, j, n) ==
  IF i >= n THEN <<>>
  ELSE IF j >= n THEN PairsFrom(i + 1, InnerStart(i + 1), n)
  ELSE <<<<i, j>>>> \o PairsFrom(i, j + 1, n)

LoopPairs(n) == PairsFrom(0, InnerStart(0), n)

\* rel != Relation::INDEPENDENT
KeepRelation(rel) == rel # "INDEPENDENT"

RECURSIVE ResultDeps(_, _, _, _)
\* result_deps of getDependencies(ms) from the x-th pair on
ResultDeps(ms, cache, prs, x) ==
  IF x > Len(prs) THEN <<>>
  ELSE LET i == prs[x][1]
           j == prs[x][2]
           key == Key(ms[i + 1], ms[j + 1])
       IN  (IF cache[key] # Absent /\ KeepRelation(cache[key])
              THEN <<[market_i |-> i, market_j |-> j, relation |-> cache[key]]>>
              ELSE <<>>)
             \o ResultDeps(ms, cache, prs, x + 1)

RECURSIVE NewPairs(_, _, _, _, _)
\* new_pairs of the discovery task: the uncached pairs of one category, at
\* most max_pairs of them
NewPairs(ms, cache, prs, x, acc) ==
  IF x > Len(prs) \/ Len(acc) >= MAX_PAIRS THEN acc
  ELSE LET first == ms[prs[x][1] + 1]
           second == ms[prs[x][2] + 1]
       IN  IF cache[Key(first, second)] # Absent
             THEN NewPairs(ms, cache, prs, x + 1, acc)
           ELSE IF first.category = second.category
             THEN NewPairs(ms, cache, prs, x + 1, Append(acc, <<first, second>>))
           ELSE NewPairs(ms, cache, prs, x + 1, acc)

\* the relations classifyBatch reads from a line
ClassifierRelations == {"IMPLIES", "MUTEX", "INDEPENDENT"}

\* what classifyBatch(pairs) can return: one entry per line of the answer
\* whose index is below pairs.size(), in the order of the lines; none when
\* the call of the model failed
ClassifyBatch(pairs) ==
  LET Lines == [idx : 0..(Len(pairs) - 1), rel : ClassifierRelations]
  IN  {[x \in 1..Len(ls) |->
          [key |-> Key(pairs[ls[x].idx + 1][1], pairs[ls[x].idx + 1][2]),
           rel |-> ls[x].rel]] :
         ls \in UNION {[1..l -> Lines] : l \in 0..MaxLines}}

RECURSIVE UpdateCache(_, _, _)
\* cache_[res.first] = res.second for the results from the x-th on
UpdateCache(cache, results, x) ==
  IF x > Len(results) THEN cache
  ELSE UpdateCache([cache EXCEPT ![results[x].key] = results[x].rel],
                   results, x + 1)

\* the threads, and the holder of a mutex nobody holds
Free == <<>>
MainThread == <<"main">>
TaskThread(t) == <<"task", t>>

NoAccess == [by |-> Free, holder |-> Free]
MainIdle == [pc |-> "idle", saw |-> FALSE, result_deps |-> <<>>]
NewTask(ms) == [pc |-> "begin", markets_copy |-> ms, new_pairs |-> <<>>]
EndedTask == [pc |-> "ended", markets_copy |-> <<>>, new_pairs |-> <<>>]

dgFrame ==
  <<polyVars, num_markets, deps, op, feas, lp, fwVars, trade, breg, glp_fails,
    book, calls, verdict, scan, thr>>

\* main, step 1: markets = new_markets
Refresh(ml) ==
  /\ dg.main.pc = "idle" /\ ml # dg.markets
  /\ dg' = [dg EXCEPT !.markets = ml]
  /\ UNCHANGED dgFrame

\* mutant of StartGuard: the flag is not looked at
StartGuardOff(flag) == FALSE

\* if (is_discovering_) return;
StartGuard(flag) == flag

\* startAsyncDiscovery(markets): the test of is_discovering_
StartCheck ==
  /\ dg.main.pc = "idle"
  /\ dg.is_discovering \/ Len(dg.tasks) < MaxTasks
  /\ dg' = [dg EXCEPT !.main.pc = "start",
                      !.main.saw = StartGuard(dg.is_discovering)]
  /\ UNCHANGED dgFrame

\* startAsyncDiscovery: discovery in progress, return
StartSkip ==
  /\ dg.main.pc = "start" /\ dg.main.saw
  /\ dg' = [dg EXCEPT !.main = MainIdle]
  /\ UNCHANGED dgFrame

\* startAsyncDiscovery: is_discovering_ = true, and std::async starts the
\* task on a copy of the markets
StartLaunch ==
  /\ dg.main.pc = "start" /\ ~ dg.main.saw
  /\ Len(dg.tasks) < MaxTasks
  /\ dg' = [dg EXCEPT !.is_discovering = TRUE,
                      !.tasks = Append(@, NewTask(dg.markets)),
                      !.main = MainIdle]
  /\ UNCHANGED dgFrame

\* getDependencies(markets): lock_guard on cache_mutex_
GetLock ==
  /\ dg.main.pc = "idle" /\ dg.cache_mutex = Free
  /\ dg' = [dg EXCEPT !.main.pc = "get_locked", !.cache_mutex = MainThread]
  /\ UNCHANGED dgFrame

\* getDependencies: the two loops over the markets
GetScan ==
  /\ dg.main.pc = "get_locked"
  /\ dg' = [dg EXCEPT !.main.pc = "get_scanned",
               !.main.result_deps =
                  ResultDeps(dg.markets, dg.cache, LoopPairs(Len(dg.markets)), 1),
               !.access = [by |-> MainThread, holder |-> dg.cache_mutex]]
  /\ UNCHANGED dgFrame

\* getDependencies: return, the lock is released
GetReturn ==
  /\ dg.main.pc = "get_scanned"
  /\ dg' = [dg EXCEPT !.main = MainIdle, !.cache_mutex = Free]
  /\ UNCHANGED dgFrame

\* the task takes cache_mutex_ (lock_guard of a block)
TaskLock(t, from, to) ==
  /\ dg.tasks[t].pc = from /\ dg.cache_mutex = Free
  /\ dg' = [dg EXCEPT !.tasks[t].pc = to, !.cache_mutex = TaskThread(t)]
  /\ UNCHANGED dgFrame

\* 1. the pairs not in the cache
TaskScan(t) ==
  /\ dg.tasks[t].pc = "locked1"
  /\ dg' = [dg EXCEPT
               !.tasks[t].pc = "scanned",
               !.tasks[t].new_pairs =
                  NewPairs(dg.tasks[t].markets_copy, dg.cache,
                           LoopPairs(Len(dg.tasks[t].markets_copy)), 1, <<>>),
               !.access = [by |-> TaskThread(t), holder |-> dg.cache_mutex]]
  /\ UNCHANGED dgFrame

\* the end of a locked block of the task
Unlocked(t) == IF dg.cache_mutex = TaskThread(t) THEN Free ELSE dg.cache_mutex

\* the end of block 1 and the test new_pairs.empty()
TaskUnlock1(t) ==
  /\ dg.tasks[t].pc = "scanned"
  /\ dg' = [dg EXCEPT !.cache_mutex = Unlocked(t),
               !.tasks[t].pc = IF dg.tasks[t].new_pairs = <<>> THEN "no_pairs"
                               ELSE "classify"]
  /\ UNCHANGED dgFrame

\* mutant of ClearFlag: the flag is left as it is
ClearFlagKept(flag) == flag

\* is_discovering_ = false
ClearFlag(flag) == FALSE

\* no new pairs: is_discovering_ = false; return
TaskNoPairs(t) ==
  /\ dg.tasks[t].pc = "no_pairs"
  /\ dg' = [dg EXCEPT !.is_discovering = ClearFlag(@),
                      !.tasks[t] = EndedTask, !.last_exit = "no_pairs"]
  /\ UNCHANGED dgFrame

\* 2. classifyBatch(new_pairs), outside the lock; results is a local of the
\* task that nothing reads before block 3, where the model fixes its value
TaskClassify(t) ==
  /\ dg.tasks[t].pc = "classify"
  /\ dg' = [dg EXCEPT !.tasks[t].pc = "classified"]
  /\ UNCHANGED dgFrame

\* classifyBatch raises an exception (outside its own try block)
TaskClassifyThrows(t) ==
  /\ dg.tasks[t].pc = "classify"
  /\ dg' = [dg EXCEPT !.tasks[t].pc = "caught"]
  /\ UNCHANGED dgFrame

\* 3. the cache update
TaskWrite(t) ==
  /\ dg.tasks[t].pc = "locked2"
  /\ \E results \in ClassifyBatch(dg.tasks[t].new_pairs) :
       dg' = [dg EXCEPT !.tasks[t].pc = "written",
                 !.cache = UpdateCache(@, results, 1),
                 !.access = [by |-> TaskThread(t), holder |-> dg.cache_mutex]]
  /\ UNCHANGED dgFrame

\* the cache update raises an exception at one of the results: the lock is
\* released on the way to the handler
TaskWriteThrows(t) ==
  /\ dg.tasks[t].pc = "locked2"
  /\ \E results \in ClassifyBatch(dg.tasks[t].new_pairs) :
       \E done \in 0..(Len(results) - 1) :
         dg' = [dg EXCEPT !.tasks[t].pc = "caught",
                   !.cache = UpdateCache(@, SubSeq(results, 1, done), 1),
                   !.access = [by |-> TaskThread(t), holder |-> dg.cache_mutex],
                   !.cache_mutex = Unlocked(t)]
  /\ UNCHANGED dgFrame

\* the end of block 3
TaskUnlock2(t) ==
  /\ dg.tasks[t].pc = "written"
  /\ dg' = [dg EXCEPT !.cache_mutex = Unlocked(t), !.tasks[t].pc = "complete"]
  /\ UNCHANGED dgFrame

\* the end of the lambda, after the try block or its handler:
\* is_discovering_ = false
TaskClear(t) ==
  /\ dg.tasks[t].pc \in {"complete", "caught"}
  /\ dg' = [dg EXCEPT !.is_discovering = ClearFlag(@),
                      !.tasks[t] = EndedTask, !.last_exit = dg.tasks[t].pc]
  /\ UNCHANGED dgFrame

\* a step of task t
TaskStep(t) ==
  \/ TaskLock(t, "begin", "locked1")
  \/ TaskScan(t)
  \/ TaskUnlock1(t)
  \/ TaskNoPairs(t)
  \/ TaskClassify(t)
  \/ TaskClassifyThrows(t)
  \/ TaskLock(t, "classified", "locked2")
  \/ TaskWrite(t)
  \/ TaskWriteThrows(t)
  \/ TaskUnlock2(t)
  \/ TaskClear(t)

GraphInit ==
  /\ CoreInit /\ glp_fails = FALSE /\ ExecIdle /\ ScanIdle /\ ThreadsIdle
  /\ trade = NoTrade /\ breg = NoBregman
  /\ \E ml \in GraphMarkets :
       dg = [stage |-> "graph", markets |-> ml, cache |-> EmptyCache,
             cache_mutex |-> Free, is_discovering |-> FALSE, tasks |-> <<>>,
             main |-> MainIdle, access |-> NoAccess, last_exit |-> "none"]

GraphNext ==
  \/ \E ml \in GraphMarkets : Refresh(ml)
  \/ StartCheck
  \/ StartSkip
  \/ StartLaunch
  \/ GetLock
  \/ GetScan
  \/ GetReturn
  \/ \E t \in 1..Len(dg.tasks) : TaskLock(t, "begin", "locked1")
  \/ \E t \in 1..Len(dg.tasks) : TaskScan(t)
  \/ \E t \in 1..Len(dg.tasks) : TaskUnlock1(t)
  \/ \E t \in 1..Len(dg.tasks) : TaskNoPairs(t)
  \/ \E t \in 1..Len(dg.tasks) : TaskClassify(t)
  \/ \E t \in 1..Len(dg.tasks) : TaskClassifyThrows(t)
  \/ \E t \in 1..Len(dg.tasks) : TaskLock(t, "classified", "locked2")
  \/ \E t \in 1..Len(dg.tasks) : TaskWrite(t)
  \/ \E t \in 1..Len(dg.tasks) : TaskWriteThrows(t)
  \/ \E t \in 1..Len(dg.tasks) : TaskUnlock2(t)
  \/ \E t \in 1..Len(dg.tasks) : TaskClear(t)

GraphSpec == GraphInit /\ [][GraphNext]_vars

\* the threads are scheduled: the main thread does not stop inside
\* getDependencies, a task that can take a step takes one, and a task that
\* waits for the mutex gets it when the main thread, which sleeps between
\* its cycles, releases it again and again
GraphFair ==
  /\ WF_vars(GetScan) /\ WF_vars(GetReturn)
  /\ SF_vars(\E t \in 1..Len(dg.tasks) : TaskStep(t))

\* the two threads between two refreshes of the market list
GraphLiveNext ==
  \/ StartCheck
  \/ StartSkip
  \/ StartLaunch
  \/ GetLock
  \/ GetScan
  \/ GetReturn
  \/ \E t \in 1..Len(dg.tasks) : TaskLock(t, "begin", "locked1")
  \/ \E t \in 1..Len(dg.tasks) : TaskScan(t)
  \/ \E t \in 1..Len(dg.tasks) : TaskUnlock1(t)
  \/ \E t \in 1..Len(dg.tasks) : TaskNoPairs(t)
  \/ \E t \in 1..Len(dg.tasks) : TaskClassify(t)
  \/ \E t \in 1..Len(dg.tasks) : TaskClassifyThrows(t)
  \/ \E t \in 1..Len(dg.tasks) : TaskLock(t, "classified", "locked2")
  \/ \E t \in 1..Len(dg.tasks) : TaskWrite(t)
  \/ \E t \in 1..Len(dg.tasks) : TaskWriteThrows(t)
  \/ \E t \in 1..Len(dg.tasks) : TaskUnlock2(t)
  \/ \E t \in 1..Len(dg.tasks) : TaskClear(t)

GraphLiveSpec == GraphInit /\ [][GraphLiveNext]_vars /\ GraphFair

\* ============================================================== properties
\* optimize has returned: result holds what the caller receives
Returned == op = "optimize" /\ pc = "idle"

HalfVector(n) == [i \in 1..n |-> HALF]

\* A.x restricted to row r (1-based), from the stored triplets
RowOf(r, x) == RowActivity(A_triplets, r - 1, x)

HasLower(r) == b_lower[r] > FINITE_ABOVE

\* row r holds at x to the tolerance tol
RowHolds(r, x, tol) ==
  /\ RowOf(r, x) <= b_upper[r] + tol
  /\ HasLower(r) => RowOf(r, x) >= b_lower[r] - tol

\* x lies in the polytope to the tolerance tol: every row, and the box [0,1]^n
InPolytope(x, tol) ==
  /\ Len(x) = num_vars
  /\ \A j \in 1..num_vars : 0 <= x[j] /\ x[j] <= ONE
  /\ \A r \in 1..num_constraints : RowHolds(r, x, tol)

\* how far the dependency d is from holding at the prices pr (0 when it holds)
DepBreach(d, pr) ==
  LET pi == pr[d.market_i + 1]
      pj == pr[d.market_j + 1]
  IN  CASE d.relation = "IMPLIES" -> Max(pi - pj, 0)
        [] d.relation = "MUTEX" -> Max(pi + pj - ONE, 0)
        [] d.relation = "EXACTLY_ONE" -> Abs(pi + pj - ONE)
        [] d.relation = "INDEPENDENT" -> 0

\* the breach of row r at x that checkFeasibility is to report (0: none)
RowBreach(r, x) ==
  IF RowOf(r, x) > b_upper[r] + FEAS_TOL THEN RowOf(r, x) - b_upper[r]
  ELSE IF HasLower(r) /\ RowOf(r, x) < b_lower[r] - FEAS_TOL
         THEN b_lower[r] - RowOf(r, x)
  ELSE 0

\* C1: every iterate q of optimize, from the 0.5 vector on and after each
\* update and clamp, satisfies every row to the tolerance 1e-9 and the bounds
\* [0,1]; so does the returned q*, however the loop ended.
C1_IterateInPolytope ==
  op = "optimize" =>
    /\ InPolytope(q, FEAS_TOL)
    /\ pc = "idle" => result.optimal = q /\ InPolytope(result.optimal, FEAS_TOL)

\* C1 witness: a projection returned after two updates onto a polytope with
\* an equality row, away from the starting point
C1_Witness ==
  /\ Returned /\ hist.updates >= 2
  /\ \E r \in 1..num_constraints : HasLower(r)
  /\ result.optimal # HalfVector(num_vars)

C3_ViolationIsMaxBreach ==
  op = "check" =>
    /\ \A r \in 1..num_constraints : feas.violation >= RowBreach(r, feas.prices)
    /\ \/ feas.violation = 0
       \/ \E r \in 1..num_constraints : feas.violation = RowBreach(r, feas.prices)
    /\ feas.violation >= 0
    /\ feas.feasible <=> feas.violation = 0
    /\ feas.feasible <=> feas.violation <= FEAS_TOL

\* C3 witness: two rows breached, the earlier one by more
C3_Witness ==
  /\ op = "check"
  /\ \E r1, r2 \in 1..num_constraints :
       /\ r1 < r2
       /\ RowBreach(r1, feas.prices) > RowBreach(r2, feas.prices)
       /\ RowBreach(r2, feas.prices) > 0

\* C4: after buildConstraints(n, deps) numConstraints() is the number of
\* entries of deps that are not INDEPENDENT, duplicates counted, and
\* numVariables() is n.
C4_ConstraintCount ==
  /\ num_constraints =
       Cardinality({i \in 1..Len(deps) : deps[i].relation # "INDEPENDENT"})
  /\ num_vars = num_markets

\* C4 witness: a build from a list that holds one dependency twice, and one
\* from a list with an INDEPENDENT entry
C4_Witness ==
  /\ op = "build" /\ Len(deps) = 2 /\ num_markets = 3
  /\ \/ deps[1] = deps[2] /\ num_constraints = 2
     \/ deps[1].relation = "INDEPENDENT" /\ num_constraints = 1

QuarterGrid(n) == [1..n -> {0, ONE \div 4, HALF, 3 * (ONE \div 4), ONE}]

\* C6: a value returned by solveLP(c) is a point of the polytope, and no
\* point of the polytope has a smaller objective; on a single MUTEX row
\* c = (1,1) gives (0,0) and c = (-1,1) gives (1,0).
C6_LPReturnsMinimizer ==
  lp.ret.ok =>
    /\ InPolytope(lp.ret.x, 0)
    /\ \A y \in QuarterGrid(num_vars) :
         InPolytope(y, 0) => Dot(lp.c, lp.ret.x) <= Dot(lp.c, y)
    /\ (num_vars = 2 /\ Len(deps) = 1 /\ deps[1].relation = "MUTEX") =>
         /\ lp.c = <<GS, GS>> => lp.ret.x = <<0, 0>>
         /\ lp.c = <<-GS, GS>> => lp.ret.x = <<ONE, 0>>

\* C6 witness: a direct call returned a vertex on an equality row, chosen by
\* an objective with entries of both signs
C6_Witness ==
  /\ op = "solve" /\ lp.ret.ok
  /\ \E r \in 1..num_constraints : HasLower(r) /\ RowOf(r, lp.ret.x) = b_lower[r]
  /\ \E i, j \in 1..num_vars : lp.c[i] < 0 /\ lp.c[j] > 0
  /\ \E i \in 1..num_vars : lp.ret.x[i] = ONE

\* C7: in the result of optimize trade_vector[i] = optimal[i] - prices[i]
\* for every i, prices being the argument as passed, on every exit.
C7_TradeVectorExact ==
  Returned =>
    /\ Len(result.trade_vector) = Len(prices)
    /\ \A i \in 1..Len(prices) :
         result.trade_vector[i] = result.optimal[i] - prices[i]

\* C7 witness: a result for prices that the clamp changes, after an update
C7_Witness ==
  /\ Returned /\ hist.updates >= 1
  /\ \E i \in 1..Len(prices) : prices[i] # p[i]

\* C8: converged is true only if the last pass of the loop got a vertex from
\* the LP oracle and its gap g.(q - v) was at most the tolerance; it is false
\* when the loop ended by an LP failure or by exhausting max_iters.
C8_ConvergedOnlyBelowTolerance ==
  op = "optimize" =>
    /\ result.converged =>
         /\ hist.exit = "converged"
         /\ lp.ret.ok
         /\ Dot(lp.c, [i \in 1..Len(q) |-> q[i] - lp.ret.x[i]]) <= tolerance
         /\ lp.c = Gradient(p, q)
    /\ hist.exit \in {"lp_failed", "max_iters"} => ~ result.converged
    /\ hist.exit = "lp_failed" => ~ lp.ret.ok

\* C8 witness: a projection that converged in its third pass, under the
\* small tolerance
C8_Witness ==
  /\ Returned /\ result.converged /\ result.iterations >= 2
  /\ tolerance = 1 /\ num_constraints >= 1

\* what holds of the counters in every state of optimize
C9_Bounded ==
  op = "optimize" =>
    /\ hist.lp_calls <= max_iters
    /\ 0 <= result.iterations /\ result.iterations <= max_iters
    /\ 0 <= k /\ k <= max_iters
    /\ hist.ls_steps \in {0, LS_STEPS}
    /\ hist.ls_total = LS_STEPS * hist.updates
    /\ hist.updates = k
    /\ Returned =>
         result.iterations =
           hist.updates + (IF hist.exit \in {"converged", "lp_failed"} THEN 1 ELSE 0)
    /\ (Returned /\ max_iters = 0) =>
         result.iterations = 0 /\ result.optimal = HalfVector(Len(prices))

\* the passes and steps a running optimize still has before it returns
C9_Variant ==
  CASE pc = "loop" -> (max_iters - k) + 2
    [] pc = "exit" -> 1
    [] OTHER -> 0

\* a running optimize can always take its next step: it is in the loop or
\* past it, and in a pass of the loop the LP oracle gives an answer
C9_CanStep ==
  /\ pc \in {"idle", "loop", "exit"}
  /\ (pc = "loop" /\ LoopCond(k, max_iters)) => SolveLP(Gradient(p, q)) # {}

\* a step of a running optimize leaves the loop or moves k one closer to
\* max_iters, and brings the return nearer
C9_Progress ==
  /\ pc = "loop" => (pc' # "loop" \/ (k' = k + 1 /\ k' <= max_iters))
  /\ pc # "idle" => (C9_Variant' < C9_Variant /\ C9_Variant' >= 0)

\* C9: optimize terminates and honours max_iters: at most max_iters LP
\* calls, 0 <= iterations <= max_iters, every pass of the loop runs a line
\* search of exactly 30 steps (the one pass that leaves the loop at the LP
\* failure or at the gap test stops before its line search), with
\* max_iters = 0 iterations = 0 and q* the 0.5 vector; a running call can
\* always step, and each of its steps brings the return nearer.
C9_HonoursMaxIters ==
  /\ [](C9_Bounded /\ C9_CanStep)
  /\ [][C9_Progress]_vars

\* C9 witness: a run that used all its max_iters passes, each with a line search
C9_Witness ==
  /\ Returned /\ hist.exit = "max_iters" /\ max_iters >= 2
  /\ hist.lp_calls = max_iters /\ hist.ls_total = LS_STEPS * max_iters

\* C10: profit = max(D_KL(p || q*), 1/2 sum_i |trade_vector[i]|), so profit
\* >= 0 and profit >= half the L1 norm of the trade vector.
C10_ProfitIsMax ==
  Returned =>
    LET kl == KLDivergence(p, result.optimal)
        l1 == SumTo([i \in 1..Len(prices) |-> Abs(result.trade_vector[i])],
                    Len(prices))
    IN  /\ result.profit >= kl
        /\ 2 * result.profit >= l1 * (LNS \div ONE)
        /\ result.profit = kl \/ 2 * result.profit = l1 * (LNS \div ONE)
        /\ result.profit >= 0

\* C10 witness: a result whose profit is the KL term, above a positive L1 term
C10_Witness ==
  /\ Returned /\ hist.updates >= 1
  /\ result.profit = KLDivergence(p, result.optimal)
  /\ result.profit > HalfL1(result.trade_vector)
  /\ HalfL1(result.trade_vector) > 0

\* ---------------------------------------------------------------- C11, C12
\* the calls of fn made so far
CallsOf(fn) == {i \in 1..Len(calls) : calls[i].fn = fn}

\* C11 as claimed: for sizes 0 <= s1 <= s2 the VWAP of a buy does not fall
\* and the VWAP of a sell does not rise.
C11_Claimed_Monotone ==
  \A i, j \in CallsOf("computeVWAP") :
    (calls[i].side = calls[j].side /\ calls[i].size <= calls[j].size) =>
      IF calls[i].side = "BUY" THEN calls[i].ret <= calls[j].ret
                               ELSE calls[i].ret >= calls[j].ret

\* C11 amended: a requested size of 0 returns 0 on either side; for
\* 0 < s1 <= s2 the VWAP of a buy does not fall and the VWAP of a sell does
\* not rise, up to one rounding unit of total_cost / total_filled (for a buy
\* this covers s1 = 0 as well).
C11_MonotoneForPositiveSizes ==
  \A i, j \in CallsOf("computeVWAP") :
    /\ calls[i].size = 0 => calls[i].ret = 0
    /\ (calls[i].side = calls[j].side /\ calls[i].size <= calls[j].size) =>
         /\ calls[i].side = "BUY" => calls[i].ret <= calls[j].ret + 1
         /\ (calls[i].side = "SELL" /\ calls[i].size > 0) =>
              calls[i].ret >= calls[j].ret - 1

\* C11 witness: two sells into a book of two bid levels, the smaller inside
\* the top level and the larger beyond the depth of the book, at a lower VWAP
C11_Witness ==
  /\ Len(book.bids) = 2 /\ book.bids[1].price > book.bids[2].price
  /\ Len(calls) = 2
  /\ calls[1].fn = "computeVWAP" /\ calls[2].fn = "computeVWAP"
  /\ calls[1].side = "SELL" /\ calls[2].side = "SELL"
  /\ 0 < calls[1].size /\ calls[1].size < book.bids[1].size
  /\ calls[2].size > book.bids[1].size + book.bids[2].size
  /\ calls[1].ret > calls[2].ret + 1

\* the best price on the side a call needs, and the size offered there
TopLevel(side) == Levels(book, side)[1]

\* a call with a size not above that of the top level of a non-empty side
WithinTop(c) ==
  /\ Levels(book, c.side) # <<>>
  /\ c.size <= TopLevel(c.side).size

\* C12 as claimed: for a size not above that of the top level computeVWAP
\* returns the best price and estimateSlippage returns 0.
C12_Claimed_BestPriceNoSlippage ==
  \A i \in 1..Len(calls) :
    WithinTop(calls[i]) =>
      /\ calls[i].fn = "computeVWAP" => calls[i].ret = TopLevel(calls[i].side).price
      /\ calls[i].fn = "estimateSlippage" => calls[i].ret = 0

\* C12 amended: for a size s with 0 < s <= size of the top level computeVWAP
\* returns the best price up to one rounding unit of total_cost /
\* total_filled, and estimateSlippage at most that unit over the best price;
\* for s = 0 computeVWAP returns 0 and estimateSlippage returns 1.
C12_BestPriceUpToRounding ==
  \A i \in 1..Len(calls) :
    WithinTop(calls[i]) =>
      LET c == calls[i]
          best == TopLevel(c.side).price
      IN  /\ (c.fn = "computeVWAP" /\ c.size > 0) =>
               (best - 1 <= c.ret /\ c.ret <= best)
          /\ (c.fn = "estimateSlippage" /\ c.size > 0) =>
               (0 <= c.ret /\ c.ret * best <= ONE)
          /\ (c.fn = "computeVWAP" /\ c.size = 0) => c.ret = 0
          /\ (c.fn = "estimateSlippage" /\ c.size = 0) => c.ret = ONE

\* C12 witness: the slippage of a buy inside the top level of two ask levels
\* at different prices
C12_Witness ==
  /\ Len(book.asks) = 2 /\ book.asks[1].price < book.asks[2].price
  /\ Len(calls) = 1 /\ calls[1].fn = "estimateSlippage"
  /\ calls[1].side = "BUY"
  /\ 0 < calls[1].size /\ calls[1].size < book.asks[1].size
  /\ calls[1].ret * book.asks[1].price <= ONE

\* ---------------------------------------------------------------- C13, C14
\* the legs of the opportunity of the last isProfitableAfterCosts call, and
\* for a leg its trade-vector entry, side, order size and slippage rate
Legs == 1..Len(verdict.opp.market_indices)
LegEntry(leg) == verdict.opp.trade_vector[verdict.opp.market_indices[leg] + 1]
LegSize(leg) == FMul(Abs(LegEntry(leg)), verdict.cfg.max_trade_usd)
LegSlippage(leg) ==
  EstimateSlippage(verdict.books[leg], LegSide(LegEntry(leg)), LegSize(leg))

\* the leg needs a side of its book that has no levels
LegSideEmpty(leg) == Levels(verdict.books[leg], LegSide(LegEntry(leg))) = <<>>

\* C13 as claimed: when the book of some leg has no levels on the side the
\* leg needs, computeVWAP returns 0, estimateSlippage returns 1 and
\* isProfitableAfterCosts returns false.
C13_Claimed_EmptyBookRejects ==
  verdict.called =>
    \A leg \in Legs :
      LegSideEmpty(leg) =>
        /\ ComputeVWAP(verdict.books[leg], LegSide(LegEntry(leg)), LegSize(leg)) = 0
        /\ LegSlippage(leg) = ONE
        /\ ~ verdict.ret

\* N * expected_profit - N * fee_rate - N * sum_k sigma_k * |t_k|
ClaimedNet ==
  LET N == verdict.cfg.max_trade_usd
      cost == [leg \in Legs |-> FMul(LegSlippage(leg), Abs(LegEntry(leg)))]
  IN  FMul(N, verdict.opp.expected_profit) - FMul(N, verdict.cfg.fee_rate)
        - FMul(N, SumTo(cost, Len(verdict.opp.market_indices)))

\* C14: isProfitableAfterCosts returns true exactly when
\* N * expected_profit - N * fee_rate - N * sum_k sigma_k * |t_k| >=
\* min_profit_usd, over the legs k of market_indices, with t_k the entry of
\* the trade vector at market_indices[k], BUY for t_k > 0 and SELL otherwise,
\* and sigma_k the slippage of |t_k| * N in book k.
C14_VerdictIsNetAboveFloor ==
  verdict.called =>
    (verdict.ret <=> ClaimedNet >= verdict.cfg.min_profit_usd)

\* C14 witness: a buy leg and a sell leg, one of them with slippage, and a
\* verdict that the slippage cost turns: gross - fees alone reaches the floor
C14_Witness ==
  /\ verdict.called /\ Len(verdict.opp.market_indices) = 2
  /\ LegEntry(1) < 0 /\ LegEntry(2) > 0
  /\ \E leg \in Legs : LegSlippage(leg) > 0 /\ LegSlippage(leg) < ONE
  /\ ~ verdict.ret
  /\ FMul(verdict.cfg.max_trade_usd, verdict.opp.expected_profit)
       - FMul(verdict.cfg.max_trade_usd, verdict.cfg.fee_rate)
       >= verdict.cfg.min_profit_usd

\* ---------------------------------------------------------------------- C15
\* the tick is over and the projection ran in it
Projected == scan.stage = "done" /\ scan.projected

\* C15 as claimed: an Opportunity record is produced if and only if the
\* profit of the projection is > 0 and some entry of its trade vector is
\* above 1e-6 in absolute value.
C15_Claimed_EmitIffPositiveProfit ==
  Projected =>
    (scan.emitted <=>
       /\ result.profit > 0
       /\ \E i \in 1..Len(result.trade_vector) : Abs(result.trade_vector[i]) > TV_MIN)

\* the members buildConstraints(n, ds) leaves behind
BuiltPolytope(n, ds) ==
  LET rows == BuildRows(ds, 1, EmptyRows)
  IN  <<n, rows.row, rows.trip, rows.bu, rows.bl,
        [j \in 1..n |-> 0], [j \in 1..n |-> ONE]>>

\* the glp_prob solveLP loads from the polytope as it was built
BuiltProblem(n, ds) ==
  LET rows == BuildRows(ds, 1, EmptyRows)
  IN  [cols |-> n, lb |-> [j \in 1..n |-> 0], ub |-> [j \in 1..n |-> ONE],
       rows |-> rows.row, bu |-> rows.bu, bl |-> rows.bl, trips |-> rows.trip]

\* what checkFeasibility(pr) returns on that polytope when nothing else runs
CheckAlone(pr, ds) ==
  LET rows == BuildRows(ds, 1, EmptyRows)
  IN  CheckFeasibilityOf(pr, rows.row, rows.trip, rows.bu, rows.bl)

\* the calls of the workers that have run to their end return what they
\* return alone, and the polytope is as it was built
C16_ResultsAsAlone ==
  op # "none" =>
    /\ polyVars = BuiltPolytope(num_markets, deps)
    /\ \A t \in Workers :
         /\ (thr[t].call = "check" /\ thr[t].at = "done")
              => thr[t].ret = CheckAlone(thr[t].arg, deps)
         /\ (thr[t].call = "solve" /\ thr[t].at = "done")
              => /\ thr[t].prob = BuiltProblem(num_markets, deps)
                 /\ thr[t].ret \in SolveLP(thr[t].arg)

\* no step after the build writes a member of the polytope; a step of a
\* worker leaves the state of optimize alone, and a step of optimize the
\* locals of the workers
C16_StepReadOnly ==
  /\ op # "none" => UNCHANGED polyVars
  /\ thr' # thr => UNCHANGED <<op, feas, lp, fwVars>>
  /\ <<op, lp, fwVars>>' # <<op, lp, fwVars>> => thr' = thr

\* C16: once built, the polytope is read-only: no step of checkFeasibility,
\* solveLP or optimize changes num_vars, num_constraints, the triplets, the
\* row bounds or the variable bounds, and however the steps of the threads
\* interleave, each call on its own price vector returns what it returns
\* when it runs alone.
C16_SharedPolytopeReadOnly == []C16_ResultsAsAlone /\ [][C16_StepReadOnly]_vars

\* both workers have returned, one from checkFeasibility with a breach and
\* one from solveLP with a vertex, while optimize is inside its loop after
\* an update
C16_Witness ==
  /\ pc = "loop" /\ k >= 1
  /\ thr[1].call = "check" /\ thr[1].at = "done" /\ ~ thr[1].ret.feasible
  /\ thr[2].call = "solve" /\ thr[2].at = "done" /\ thr[2].ret.ok
  /\ num_constraints = 2

\* C17: for every n >= 1 and every dependency list with indices in [0, n),
\* the polytope buildConstraints produces is not empty: some vector of
\* [0,1]^n satisfies every IMPLIES, MUTEX and EXACTLY_ONE row at once.  The
\* centre is such a vector, and checkFeasibility says so.
C17_PolytopeNonEmpty ==
  (op # "none" /\ num_vars >= 1) =>
    /\ InPolytope(HalfVector(num_vars), 0)
    /\ (op = "check" /\ feas.prices = HalfVector(num_vars)) => feas.feasible

\* C17 witness: rows of all three relations on the same pair of markets, and
\* the check of the centre on them; neither corner is in that polytope
C17_Witness ==
  /\ op = "check" /\ feas.prices = HalfVector(num_vars) /\ feas.feasible
  /\ num_constraints = 3
  /\ \A r \in 1..3 : deps[r].market_i = 0 /\ deps[r].market_j = 1
  /\ ~ InPolytope([i \in 1..num_vars |-> 0], 0)
  /\ ~ InPolytope([i \in 1..num_vars |-> ONE], 0)

\* the number of rows the dependencies before the i-th have been given
RowsBefore(i) ==
  Cardinality({j \in 1..(i - 1) : deps[j].relation # "INDEPENDENT"})

\* the row of the i-th dependency has the coefficient cj at market_j and the
\* bounds bl (NO_LOWER: none) and bu
RowIs(i, cj, bl, bu) ==
  LET r == RowsBefore(i)
  IN  /\ A_triplets[2 * r + 1] = [row |-> r, col |-> deps[i].market_i, val |-> 1]
      /\ A_triplets[2 * r + 2] = [row |-> r, col |-> deps[i].market_j, val |-> cj]
      /\ b_lower[r + 1] = bl
      /\ b_upper[r + 1] = bu

C19_Claimed_CountsCompletedSteps ==
  Returned => result.iterations = hist.updates

\* C19: on return from optimize, iterations is the number of passes of the
\* loop that were entered, which is the number of LP calls: the completed
\* steps, plus one for the pass that was cut short by an LP failure or by the
\* gap test; it is 0 only when max_iters is 0.
C19_CountsPassesEntered ==
  Returned =>
    /\ result.iterations = hist.lp_calls
    /\ result.iterations =
         hist.updates + (IF hist.exit \in {"converged", "lp_failed"} THEN 1 ELSE 0)
    /\ hist.exit = "max_iters" => result.iterations = max_iters
    /\ result.iterations = 0 <=> max_iters <= 0

\* C19 witness: the gap test ended the loop in the pass after two updates,
\* and iterations is 3
C19_Witness ==
  /\ Returned /\ hist.exit = "converged"
  /\ hist.updates = 2 /\ result.iterations = 3

\* a step of optimize in which solveLP was called and returned nullopt
LPFailsInStep ==
  pc = "loop" /\ hist'.lp_calls = hist.lp_calls + 1 /\ ~ lp'.ret.ok

\* that step leaves the loop with the iterate and the counts of updates and
\* of line-search steps as they were
C20_FailedPass ==
  LPFailsInStep =>
    /\ pc' = "exit" /\ hist'.exit = "lp_failed"
    /\ q' = q /\ k' = k
    /\ hist'.updates = hist.updates
    /\ hist'.ls_total = hist.ls_total /\ hist'.ls_steps = 0
    /\ ~ result'.converged

\* what optimize returns after the step: the iterate the pass started from
C20_FailedResult ==
  (Returned /\ hist.exit = "lp_failed") =>
    /\ ~ result.converged
    /\ hist.updates = k /\ hist.lp_calls = k + 1
    /\ result.optimal = q
    /\ k = 0 => result.optimal = HalfVector(Len(prices))
    /\ \A i \in 1..Len(prices) :
         result.trade_vector[i] = result.optimal[i] - prices[i]
    /\ result.profit = Profit(p, result.optimal, result.trade_vector)

\* C20: when solveLP returns none in the pass with counter k of optimize,
\* the loop stops at once with converged = false, the pass does no line
\* search and no update, and the q* returned is the iterate the pass started
\* with (the 0.5 vector when k = 0), trade_vector and profit computed from it.
C20_LPFailureStopsLoop == []C20_FailedResult /\ [][C20_FailedPass]_vars

\* C20 witness: solveLP failed in the third pass on a polytope with a row;
\* the result is the iterate after two updates, away from the centre
C20_Witness ==
  /\ Returned /\ hist.exit = "lp_failed" /\ ~ result.converged
  /\ k = 2 /\ hist.updates = 2 /\ hist.ls_total = 2 * LS_STEPS
  /\ num_constraints >= 1
  /\ result.optimal # HalfVector(num_vars)

\* C25 as claimed: every TradeResult execute returns has the status "FILLED",
\* "PARTIAL" or "FAILED", whether all legs were filled, an order was
\* rejected, the latency budget was exceeded or every leg was skipped.
C25_Claimed_StatusDocumented ==
  trade.stage = "returned" => trade.status \in {"FILLED", "PARTIAL", "FAILED"}

\* step 5 of the tick has run: feas holds what checkFeasibility returned
Checked == feas.prices # <<>>

\* optimize is called only in a tick whose prices were found infeasible, and
\* a tick whose prices were found feasible has made no LP call, has no
\* opportunity logged, no verdict and no execute call
C21_FeasibleTickIdle ==
  scan.stage # "none" =>
    /\ (op = "optimize" \/ scan.projected \/ hist.lp_calls > 0)
         => (Checked /\ ~ feas.feasible)
    /\ (Checked /\ feas.feasible)
         => /\ op = "check" /\ pc = "idle" /\ hist.lp_calls = 0
            /\ ~ scan.projected /\ ~ scan.emitted
            /\ ~ verdict.called /\ trade = NoTrade

\* the only step of such a tick is its end
C21_FeasibleTickEnds ==
  (Checked /\ feas.feasible) =>
    /\ scan'.stage = "done"
    /\ UNCHANGED <<polyVars, op, feas, lp, fwVars, verdict, trade>>

C22_Claimed_FailedProjectionDiscarded ==
  /\ (scan.stage = "done" /\ scan.projected /\ hist.exit = "lp_failed")
       => (~ scan.emitted /\ ~ verdict.called /\ trade = NoTrade)
  /\ scan.stage # "none" /\ scan.emitted => result.converged

\* execute has been called only after isProfitableAfterCosts returned true
\* for the opportunity of the tick and the books of its legs, book by book
\* the one of the market the leg names
C23_ExecuteAfterVerdict ==
  /\ trade # NoTrade =>
       /\ verdict.called /\ verdict.ret
       /\ verdict.opp = ExecOppOf(scan.opp) /\ trade.opp = verdict.opp
       /\ Len(verdict.books) = Len(verdict.opp.market_indices)
       /\ \A leg \in 1..Len(verdict.books) :
            verdict.books[leg] = verdict.cache[verdict.opp.market_indices[leg]]
       /\ IsProfitableAfterCosts(verdict.opp, verdict.books, verdict.cfg)
  /\ (verdict.called /\ ~ verdict.ret) => trade = NoTrade

\* a step of execute, the submission of an order among them, is taken only
\* under a true verdict, which it leaves as it is
C23_ExecuteStep ==
  trade' # trade => (verdict.called /\ verdict.ret /\ verdict' = verdict)

C24_RebuildReplaces ==
  scan.stage = "cycles" =>
    /\ polyVars = BuiltPolytope(num_markets, deps)
    /\ op = "check" => [feasible |-> feas.feasible, violation |-> feas.violation,
                        dual |-> feas.dual] = CheckAlone(feas.prices, deps)

\* C24 witness: the third call, with fewer markets and fewer rows than the
\* second, after which the prices were checked; and a call that repeats the
\* arguments of the call before
C24_Witness ==
  /\ scan.stage = "cycles" /\ scan.cycle = 3
  /\ \/ /\ op = "check"
        /\ scan.before[1] > num_markets
        /\ Len(scan.before[2]) > num_constraints /\ num_constraints = 1
     \/ /\ op = "build"
        /\ scan.before = <<num_markets, deps>> /\ num_constraints = 2

\* C26: for n >= 1 markets and dependencies with in-range indices and
\* market_i # market_j, solveLP returns a vertex of the polytope for every
\* objective: no call returns nullopt, neither a direct one nor one made by
\* optimize or project, so that both loops end by the gap test or by
\* max_iters only.
C26_LPNeverFails ==
  num_vars >= 1 =>
    /\ op = "build" =>
         \A c \in Objectives(num_vars) :
           /\ SolveLP(c) # {}
           /\ \A ret \in SolveLP(c) : ret.ok /\ GlpFeasible(ret.x) /\ GlpBasic(ret.x)
    /\ lp # NoLP => (lp.ret.ok /\ GlpFeasible(lp.ret.x) /\ GlpBasic(lp.ret.x))
    /\ hist.exit \in {"none", "converged", "max_iters"}
    /\ breg # NoBregman =>
         /\ breg.lp # NoLP => (breg.lp.ret.ok /\ GlpFeasible(breg.lp.ret.x))
         /\ breg.exit \in {"none", "converged", "max_iters"}

\* C26 witness: optimize and project have both returned after two or more
\* solveLP calls each on three markets tied by an implication and an
\* exactly-one row
C26_Witness ==
  /\ num_vars = 3 /\ num_constraints = 2
  /\ \E i \in 1..2 : deps[i].relation = "EXACTLY_ONE"
  /\ \E i \in 1..2 : deps[i].relation = "IMPLIES"
  /\ op = "optimize" /\ pc = "idle" /\ hist.lp_calls >= 2
  /\ breg # NoBregman /\ breg.pc = "done" /\ breg.passes >= 2

\* C27: project and optimize, run side by side on the same prices, polytope,
\* max_iters and tolerance, make the same solveLP calls and hold the same
\* iterate after every pass, leave their loops the same way, and return
\* projected = optimal, equal iterations and equal converged.
C27_SameStateMachine ==
  breg # NoBregman =>
    /\ breg.p = p
    /\ breg.passes <= hist.lp_calls
    /\ breg.passes = hist.lp_calls =>
         /\ breg.q = q /\ breg.k = k /\ breg.lp = lp
         /\ breg.result.iterations = result.iterations
         /\ breg.result.converged = result.converged
    /\ (breg.pc \in {"exit", "done"} /\ pc \in {"exit", "idle"}) =>
         /\ breg.passes = hist.lp_calls
         /\ breg.exit = hist.exit
    /\ (breg.pc = "done" /\ pc = "idle") => breg.result.projected = result.optimal

\* C27 witness: both have returned after two or more passes that moved the
\* iterate away from the centre, on a polytope with a row
C27_Witness ==
  /\ breg # NoBregman /\ breg.pc = "done" /\ pc = "idle" /\ op = "optimize"
  /\ num_constraints >= 1
  /\ breg.result.iterations >= 2 /\ result.iterations >= 2
  /\ breg.result.projected # ProjectStart(breg.p)

\* the discovery tasks that have not ended
RunningTasks == {t \in 1..Len(dg.tasks) : dg.tasks[t].pc # "ended"}

\* C28: every dependency returned by getDependencies(markets) has
\* market_i < market_j < markets.size() and a relation other than
\* INDEPENDENT, and the list is in ascending (i, j) order, whatever a
\* discovery task is doing to the cache meanwhile; so every column index of
\* the rows buildConstraints(markets.size(), deps) builds is in range.
C28_ReturnedDepsInRange ==
  (dg.stage = "graph" /\ dg.main.pc = "get_scanned") =>
    LET ds == dg.main.result_deps
        n == Len(dg.markets)
    IN  /\ \A x \in 1..Len(ds) :
             /\ 0 <= ds[x].market_i /\ ds[x].market_i < ds[x].market_j
             /\ ds[x].market_j < n
             /\ ds[x].relation \in Relations \ {"INDEPENDENT"}
        /\ \A x \in 1..Len(ds) : \A y \in (x + 1)..Len(ds) :
             \/ ds[x].market_i < ds[y].market_i
             \/ ds[x].market_i = ds[y].market_i /\ ds[x].market_j < ds[y].market_j
        /\ \A x \in 1..Len(BuiltPolytope(n, ds)[3]) :
             /\ 0 <= BuiltPolytope(n, ds)[3][x].col
             /\ BuiltPolytope(n, ds)[3][x].col < n

\* C28 witness: getDependencies returns two dependencies while a discovery
\* task, started on another market list, waits for the lock with its results
\* for the cache
C28_Witness ==
  /\ dg.stage = "graph" /\ dg.main.pc = "get_scanned"
  /\ Len(dg.main.result_deps) >= 2
  /\ \E t \in RunningTasks :
       /\ dg.tasks[t].pc = "classified"
       /\ dg.tasks[t].markets_copy # dg.markets

\* at most one task has not ended, and only while the flag is set; the last
\* access to the cache was made by the holder of the mutex; the mutex is
\* held exactly inside the locked blocks
C29_OneTaskUnderLock ==
  dg.stage = "graph" =>
    /\ Cardinality(RunningTasks) <= 1
    /\ RunningTasks # {} => dg.is_discovering
    /\ dg.access.by = dg.access.holder
    /\ (dg.cache_mutex = MainThread) <=> (dg.main.pc \in {"get_locked", "get_scanned"})
    /\ \A t \in 1..Len(dg.tasks) :
         (dg.cache_mutex = TaskThread(t))
           <=> (dg.tasks[t].pc \in {"locked1", "scanned", "locked2", "written"})

\* a call of startAsyncDiscovery that finds the flag set sees it set, and
\* returns with the graph as it was
C29_SkipStep ==
  /\ (dg.main.pc = "idle" /\ dg'.main.pc = "start" /\ dg.is_discovering)
       => dg'.main.saw
  /\ (dg.main.pc = "start" /\ dg.main.saw /\ dg'.main.pc = "idle")
       => dg' = [dg EXCEPT !.main = MainIdle]

\* C29: at most one discovery task runs at any time: startAsyncDiscovery
\* called while is_discovering_ is true starts no task and changes nothing,
\* and cache_ is read and written only by the thread that holds
\* cache_mutex_, in the task and in getDependencies.
C29_SingleDiscovery == []C29_OneTaskUnderLock /\ [][C29_SkipStep]_vars

\* C29 witness: a call finds the flag set while the second task holds the
\* lock, having updated the cache
C29_Witness ==
  /\ dg.stage = "graph" /\ dg.main.pc = "start" /\ dg.main.saw
  /\ RunningTasks = {2} /\ dg.tasks[2].pc = "written"
  /\ dg.access = [by |-> TaskThread(2), holder |-> TaskThread(2)]
  /\ dg.cache_mutex = TaskThread(2)

\* a task ends with the flag cleared, and a call made when no task runs
\* starts one
C30_EndStep ==
  /\ \A t \in 1..Len(dg.tasks) :
       (dg.tasks[t].pc # "ended" /\ dg'.tasks[t].pc = "ended")
         => ~ dg'.is_discovering
  /\ (dg.main.pc = "idle" /\ dg'.main.pc = "start" /\ RunningTasks = {})
       => ~ dg'.main.saw
  /\ (dg.main.pc = "start" /\ ~ dg.main.saw /\ dg'.main.pc = "idle")
       => /\ Len(dg'.tasks) = Len(dg.tasks) + 1
          /\ dg'.tasks[Len(dg'.tasks)].pc = "begin"
          /\ dg'.is_discovering

\* C30: every discovery task that is started clears is_discovering_ on each
\* of its exit paths (no uncached pairs, classification finished, an
\* exception in the classification or in the cache update) and does so
\* eventually, so that a later startAsyncDiscovery call starts a new task.
C30_DiscoveryEnds ==
  /\ [][C30_EndStep]_vars
  /\ [](RunningTasks = {} => ~ dg.is_discovering)
  /\ dg.is_discovering ~> (~ dg.is_discovering /\ RunningTasks = {})

\* C30 witness: the second task runs, started after the first ended through
\* the exception handler
C30_Witness ==
  /\ dg.stage = "graph" /\ Len(dg.tasks) = 2
  /\ dg.tasks[1] = EndedTask /\ dg.last_exit = "caught"
  /\ dg.tasks[2].pc = "classify" /\ dg.is_discovering

====
